---- MODULE Spec2Model ----
(***************************************************************************)
(* MeshController of zyvega.py: the Bluetooth Mesh controller that         *)
(* creates or attaches to a network, scans for unprovisioned devices,      *)
(* provisions them and configures them from the configuration responses    *)
(* the mesh daemon delivers.                                               *)
(*                                                                         *)
(* The controller's fields are the variables; every public method and      *)
(* every D-Bus callback is one action.  The bluetooth-meshd daemon and the *)
(* remote nodes are the environment: the daemon runs at most one add-node  *)
(* session and reports on completion the address it was offered; remote    *)
(* nodes may send any configuration message at any time.                   *)
(***************************************************************************)
EXTENDS Integers, Sequences, FiniteSets, TLC

\* None, for a field that holds a number
None == -1
\* None, for a field that holds bytes
NoBytes == <<>>
\* a path that does not exist on disk, and a file holding text
NoFile == [exists |-> FALSE, text |-> <<>>]
File(text) == [exists |-> TRUE, text |-> text]

(***************************************************************************)
(* Bounds of the model.                                                    *)
(***************************************************************************)
\* highest unicast address the daemon is asked to hand out
MaxAddr == 4
\* highest element count a device reports
MaxCount == 2
\* highest unicast address handed out where configuration is followed
MaxConfigured == 3
\* most AddNode error replies in flight at once
MaxCallErrors == 1

(***************************************************************************)
(* Program constants.                                                      *)
(***************************************************************************)
OP_COMPOSITION_DATA_GET == 32776
OP_COMPOSITION_DATA_STATUS == 2
OP_APPKEY_STATUS == 32771
OP_MODEL_APP_BIND == 32829
OP_MODEL_APP_STATUS == 32830
OP_NODE_RESET_STATUS == 32842
\* self._next_unicast = 0x0002
FIRST_UNICAST == 2
\* data[:16]
UUID_LEN == 16
\* status = params[0] if len(params) > 0 else 0xFF
NO_STATUS == 255
\* if len(params) < 11
COMPOSITION_HEADER_LEN == 11

(***************************************************************************)
(* Bytes.  A bytes object is a sequence of 0..255; Python indexes from 0.  *)
(***************************************************************************)
At(b, i) == b[i + 1]

Slice(b, from, to) ==
    IF to <= from THEN <<>>
    ELSE SubSeq(b, from + 1, IF to < Len(b) THEN to ELSE Len(b))

\* struct.unpack_from(">H", b, off)[0]: the wrong byte order
unpack_be16(b, off) == 256 * At(b, off) + At(b, off + 1)

\* struct.unpack_from("<H", b, off)[0]
unpack_le16(b, off) == At(b, off) + 256 * At(b, off + 1)

\* struct.pack("<H", v)
pack_le16(v) == <<v % 256, (v \div 256) % 256>>

\* struct.pack(">H", v)
pack_be16(v) == <<(v \div 256) % 256, v % 256>>

\* bytes.hex(): two hexadecimal digits per byte, high nibble first
hex(b) ==
    [i \in 1..(2 * Len(b)) |->
        IF i % 2 = 1 THEN b[(i + 1) \div 2] \div 16 ELSE b[i \div 2] % 16]

RECURSIVE int16(_)
\* int(text, 16) of a sequence of hexadecimal digits
int16(digits) ==
    IF digits = <<>> THEN 0
    ELSE 16 * int16(SubSeq(digits, 1, Len(digits) - 1)) + digits[Len(digits)]

RECURSIVE format_hex(_, _)
\* f"{v:0{width}x}": v in at least width hexadecimal digits
format_hex(v, width) ==
    IF width <= 1 /\ v < 16 THEN <<v>>
    ELSE Append(format_hex(v \div 16, width - 1), v % 16)

_opcode_bytes(opcode) ==
    IF opcode < 128 THEN <<opcode>> ELSE pack_be16(opcode)

\* (opcode, params); opcode None for an empty or cut-off message
_parse_opcode(data) ==
    IF Len(data) = 0 THEN <<None, <<>>>>
    ELSE IF At(data, 0) \div 128 = 0
        THEN <<At(data, 0), Slice(data, 1, Len(data))>>
    ELSE IF At(data, 0) \div 64 = 2
        THEN IF Len(data) < 2 THEN <<None, <<>>>>
             ELSE <<At(data, 0) * 256 + At(data, 1), Slice(data, 2, Len(data))>>
    ELSE IF Len(data) < 3 THEN <<None, <<>>>>
         ELSE <<At(data, 0) * 65536 + At(data, 1) * 256 + At(data, 2),
                Slice(data, 3, Len(data))>>

(***************************************************************************)
(* Composition Data page 0: the element loop of _handle_composition_data.  *)
(***************************************************************************)
RECURSIVE sig_models_end(_, _, _)
\* offset after the loop over num_s SIG models, which stops at the buffer end
sig_models_end(params, offset, num_s) ==
    IF num_s = 0 \/ offset + 2 > Len(params) THEN offset
    ELSE sig_models_end(params, offset + 2, num_s - 1)

RECURSIVE vendor_models_loop_prepending(_, _, _, _)
\* vendor_models.insert(0, ...) in place of append: the newest comes first
vendor_models_loop_prepending(params, offset, num_v, vendor_models) ==
    IF num_v = 0 \/ offset + 4 > Len(params)
    THEN [offset |-> offset, vendor_models |-> vendor_models]
    ELSE vendor_models_loop_prepending(params, offset + 4, num_v - 1,
            <<<<unpack_le16(params, offset), unpack_le16(params, offset + 2)>>>>
                \o vendor_models)

RECURSIVE vendor_models_loop(_, _, _, _)
\* [offset, vendor_models] after the loop over num_v vendor models
vendor_models_loop(params, offset, num_v, vendor_models) ==
    IF num_v = 0 \/ offset + 4 > Len(params)
    THEN [offset |-> offset, vendor_models |-> vendor_models]
    ELSE vendor_models_loop(params, offset + 4, num_v - 1,
            Append(vendor_models,
                   <<unpack_le16(params, offset), unpack_le16(params, offset + 2)>>))

RECURSIVE elements_loop_counts_swapped(_, _, _)
\* the loop with the two count bytes of an element read in the wrong order
elements_loop_counts_swapped(params, offset, vendor_models) ==
    IF ~(offset < Len(params)) \/ offset + 4 > Len(params) THEN vendor_models
    ELSE LET num_s == At(params, offset + 3)
             num_v == At(params, offset + 2)
             after_sig == sig_models_end(params, offset + 4, num_s)
             r == vendor_models_loop(params, after_sig, num_v, vendor_models)
         IN  elements_loop_counts_swapped(params, r.offset, r.vendor_models)

RECURSIVE elements_loop(_, _, _)
\* vendor_models collected by the while loop over the elements
elements_loop(params, offset, vendor_models) ==
    IF ~(offset < Len(params)) \/ offset + 4 > Len(params) THEN vendor_models
    ELSE LET num_s == At(params, offset + 2)
             num_v == At(params, offset + 3)
             after_sig == sig_models_end(params, offset + 4, num_s)
             r == vendor_models_loop(params, after_sig, num_v, vendor_models)
         IN  elements_loop(params, r.offset, r.vendor_models)

\* the vendor models _handle_composition_data finds; <<>> when it returns early
composition_vendor_models(params) ==
    IF Len(params) < COMPOSITION_HEADER_LEN THEN <<>>
    ELSE elements_loop(params, COMPOSITION_HEADER_LEN, <<>>)

(***************************************************************************)
(* Values the environment supplies.                                        *)
(***************************************************************************)
\* device UUIDs of the unprovisioned lights in radio range
DeviceUuids == {[i \in 1..UUID_LEN |-> 170], [i \in 1..UUID_LEN |-> 187]}
\* what each light advertises: its UUID, the second one followed by OOB bytes
ScanData == {[i \in 1..UUID_LEN |-> 170], [i \in 1..UUID_LEN |-> 187] \o <<0, 1>>}
Rssi == {-70}
\* tokens the daemon hands out in JoinComplete
Tokens == {4660}
\* unicast addresses of remote nodes
Addresses == FIRST_UNICAST..MaxAddr
Counts == 1..MaxCount
\* the daemon's answers to CreateAppKey
CreateAnswers == {"Created", "AlreadyExists", "Failed"}

\* a Composition Data page 0: the header (page 0, CID 0x05F1, PID 1, VID 1,
\* CRPL 0x8000, no features), then the ten bytes 00 00 00 01 01 00 05 09 80 03
CompHeader == <<0, 241, 5, 1, 0, 1, 0, 0, 128, 0, 0>>
CompExample == CompHeader \o <<0, 0, 0, 1, 1, 0, 5, 9, 128, 3>>
\* one element with two SIG models and no vendor model
CompNoVendor == CompHeader \o <<0, 0, 2, 0, 0, 0, 2, 0>>

Msg(opcode, params) == _opcode_bytes(opcode) \o params

\* access payloads a remote node may send with its device key
Messages ==
    { Msg(OP_COMPOSITION_DATA_STATUS, c) : c \in {CompExample, CompNoVendor} }
    \cup { Msg(OP_APPKEY_STATUS, p) : p \in {<<0, 0, 0, 0>>, <<1, 0, 0, 0>>} }
    \cup { Msg(OP_MODEL_APP_STATUS, p) : p \in {<<0>>, <<2>>} }
    \cup { <<>> }

\* A Composition Data page 0 as the remote node builds it: after the header,
\* per element the location, the number of SIG models, the number of vendor
\* models, the SIG model ids and the vendor models (company id, model id),
\* every number little-endian.
RECURSIVE sig_bytes(_)
sig_bytes(sig) ==
    IF sig = <<>> THEN <<>> ELSE pack_le16(Head(sig)) \o sig_bytes(Tail(sig))

RECURSIVE vendor_bytes(_)
vendor_bytes(vendor) ==
    IF vendor = <<>> THEN <<>>
    ELSE pack_le16(Head(vendor)[1]) \o pack_le16(Head(vendor)[2])
            \o vendor_bytes(Tail(vendor))

RECURSIVE element_bytes(_)
element_bytes(elements) ==
    IF elements = <<>> THEN <<>>
    ELSE LET e == Head(elements) IN
         pack_le16(e.loc) \o <<Len(e.sig), Len(e.vendor)>> \o sig_bytes(e.sig)
            \o vendor_bytes(e.vendor) \o element_bytes(Tail(elements))

page0(elements) == CompHeader \o element_bytes(elements)

\* the light: one element with the vendor model 0x0905:0x0380
LightElements == <<[loc |-> 0, sig |-> <<>>, vendor |-> << <<2309, 896>> >>]>>
\* a first element with SIG models only, a second with two vendor models
TwoElements ==
    <<[loc |-> 0, sig |-> <<0, 2>>, vendor |-> <<>>],
      [loc |-> 1, sig |-> <<4096>>, vendor |-> << <<1521, 1>>, <<2309, 896>> >>]>>
\* one element with SIG models only
SigOnlyElements == <<[loc |-> 0, sig |-> <<0, 2>>, vendor |-> <<>>]>>
Compositions == {LightElements, TwoElements, SigOnlyElements}

\* a page 0 cut off in its second element: the light's element in full, then
\* an element that declares two vendor models and holds one
CompTruncated == page0(LightElements) \o <<1, 0, 0, 2, 241, 5, 1, 0>>

\* what a remote node may answer to the configuration requests
Responses ==
    { Msg(OP_COMPOSITION_DATA_STATUS, page0(c)) : c \in Compositions }
    \cup { Msg(OP_COMPOSITION_DATA_STATUS, c) : c \in {CompExample, CompTruncated} }
    \cup { Msg(OP_APPKEY_STATUS, p) : p \in {<<0, 0, 0, 0>>, <<1, 0, 0, 0>>} }
    \cup { Msg(OP_MODEL_APP_STATUS, p) : p \in {<<0>>, <<2>>, <<>>} }

(***************************************************************************)
(* The ZYBL wire protocol of gatt.py.                                      *)
(***************************************************************************)
\* ZYBL_HEADER = bytes([0x24, 0x3C])
ZYBL_HEADER == <<36, 60>>

RECURSIVE bitxor(_, _)
\* a ^ b on non-negative integers
bitxor(a, b) ==
    IF a = 0 THEN b
    ELSE IF b = 0 THEN a
    ELSE 2 * bitxor(a \div 2, b \div 2) + ((a + b) % 2)

RECURSIVE crc_shift_no_polynomial(_, _)
\* the inner loop without the polynomial: a plain shift
crc_shift_no_polynomial(crc, n) ==
    IF n = 0 THEN crc
    ELSE crc_shift_no_polynomial((crc * 2) % 65536, n - 1)

RECURSIVE crc_shift(_, _)
\* the inner loop of _crc16_xmodem: n times shift left, and xor the
\* polynomial 0x1021 in when bit 15 was set
crc_shift(crc, n) ==
    IF n = 0 THEN crc
    ELSE LET next == IF (crc \div 32768) % 2 = 1
                     THEN bitxor(crc * 2, 4129) % 65536
                     ELSE (crc * 2) % 65536
         IN  IF next \in 0..65535 THEN crc_shift(next, n - 1) ELSE next

RECURSIVE crc_bytes(_, _, _, _)
\* the outer loop of _crc16_xmodem over the bytes data[from..to], in order,
\* starting from crc; the range is halved so that a long buffer does not
\* nest one evaluation per byte
crc_bytes(data, from, to, crc) ==
    IF from > to THEN crc
    ELSE IF from = to THEN crc_shift(bitxor(crc, data[from] * 256), 8)
    ELSE LET mid == (from + to) \div 2
             half == crc_bytes(data, from, mid, crc)
         IN  IF half \in 0..65535 THEN crc_bytes(data, mid + 1, to, half) ELSE half

_crc16_xmodem(data) == crc_bytes(data, 1, Len(data), 0)

\* struct.pack("<HHH", ...) and bytes([length]) raise for a number that does
\* not fit its field
zybl_frame_raises(cid, payload, seq) ==
    \/ seq < 0 \/ seq > 65535
    \/ cid < 0 \/ cid > 65535
    \/ 6 + Len(payload) > 255

\* zybl_frame with the CRC appended high byte first
zybl_frame_crc_big_endian(cid, payload, seq) ==
    LET data_section == pack_le16(256) \o pack_le16(seq) \o pack_le16(cid) \o payload
        crc == _crc16_xmodem(data_section)
        length == Len(data_section)
    IN  ZYBL_HEADER \o <<length, 0>> \o data_section \o pack_be16(crc)

\* zybl_frame with a length byte that leaves the 0x0100 field out
zybl_frame_length_four(cid, payload, seq) ==
    LET data_section == pack_le16(256) \o pack_le16(seq) \o pack_le16(cid) \o payload
        crc == _crc16_xmodem(data_section)
        length == Len(data_section) - 2
    IN  ZYBL_HEADER \o <<length, 0>> \o data_section \o pack_le16(crc)

zybl_frame(cid, payload, seq) ==
    LET data_section == pack_le16(256) \o pack_le16(seq) \o pack_le16(cid) \o payload
        crc == _crc16_xmodem(data_section)
        length == Len(data_section)
    IN  ZYBL_HEADER \o <<length, 0>> \o data_section \o pack_le16(crc)

\* zybl_parse returning (cid, seq, payload): the two fields swapped
zybl_parse_cid_first(raw) ==
    IF Len(raw) < 10 THEN [exit |-> "too short", value |-> <<>>]
    ELSE IF Slice(raw, 0, 2) # ZYBL_HEADER THEN [exit |-> "bad header", value |-> <<>>]
    ELSE LET length == At(raw, 2) IN
    IF Len(raw) < length + 6 THEN [exit |-> "truncated", value |-> <<>>]
    ELSE LET data_section == Slice(raw, 4, 4 + length) IN
    IF unpack_le16(raw, 4 + length) # _crc16_xmodem(data_section)
        THEN [exit |-> "crc mismatch", value |-> <<>>]
    ELSE IF length < 6 THEN [exit |-> "malformed", value |-> <<>>]
    ELSE [exit |-> "frame",
          value |-> <<unpack_le16(data_section, 4), unpack_le16(data_section, 2),
                      Slice(data_section, 6, Len(data_section))>>]

\* zybl_parse without the check of the two header bytes
zybl_parse_any_header(raw) ==
    IF Len(raw) < 10 THEN [exit |-> "too short", value |-> <<>>]
    ELSE LET length == At(raw, 2) IN
    IF Len(raw) < length + 6 THEN [exit |-> "truncated", value |-> <<>>]
    ELSE LET data_section == Slice(raw, 4, 4 + length) IN
    IF unpack_le16(raw, 4 + length) # _crc16_xmodem(data_section)
        THEN [exit |-> "crc mismatch", value |-> <<>>]
    ELSE IF length < 6 THEN [exit |-> "malformed", value |-> <<>>]
    ELSE [exit |-> "frame",
          value |-> <<unpack_le16(data_section, 2), unpack_le16(data_section, 4),
                      Slice(data_section, 6, Len(data_section))>>]

\* zybl_parse(raw): value is (seq, cid, payload), or <<>> for None; exit
\* names the return statement taken, "struct.error" an unpack_from past the
\* end of the buffer
zybl_parse(raw) ==
    IF Len(raw) < 10 THEN [exit |-> "too short", value |-> <<>>]
    ELSE IF Slice(raw, 0, 2) # ZYBL_HEADER THEN [exit |-> "bad header", value |-> <<>>]
    ELSE LET length == At(raw, 2) IN
    IF Len(raw) < length + 6 THEN [exit |-> "truncated", value |-> <<>>]
    ELSE LET data_section == Slice(raw, 4, 4 + length) IN
    IF 4 + length + 2 > Len(raw) THEN [exit |-> "struct.error", value |-> <<>>]
    ELSE IF unpack_le16(raw, 4 + length) # _crc16_xmodem(data_section)
        THEN [exit |-> "crc mismatch", value |-> <<>>]
    ELSE IF length < 6 THEN [exit |-> "malformed", value |-> <<>>]
    ELSE [exit |-> "frame",
          value |-> <<unpack_le16(data_section, 2), unpack_le16(data_section, 4),
                      Slice(data_section, 6, Len(data_section))>>]

(***************************************************************************)
(* The table-driven checksum of videolight_control.py.                     *)
(***************************************************************************)
\* CrcCheck.LOOKUP_TABLE, entry i at position i + 1
LOOKUP_TABLE == <<
    0, 4129, 8258, 12387, 16516, 20645, 24774, 28903, 33032, 37161,
    41290, 45419, 49548, 53677, 57806, 61935, 4657, 528, 12915, 8786,
    21173, 17044, 29431, 25302, 37689, 33560, 45947, 41818, 54205,
    50076, 62463, 58334, 9314, 13379, 1056, 5121, 25830, 29895, 17572,
    21637, 42346, 46411, 34088, 38153, 58862, 62927, 50604, 54669,
    13907, 9842, 5649, 1584, 30423, 26358, 22165, 18100, 46939, 42874,
    38681, 34616, 63455, 59390, 55197, 51132, 18628, 22757, 26758,
    30887, 2112, 6241, 10242, 14371, 51660, 55789, 59790, 63919, 35144,
    39273, 43274, 47403, 23285, 19156, 31415, 27286, 6769, 2640, 14899,
    10770, 56317, 52188, 64447, 60318, 39801, 35672, 47931, 43802,
    27814, 31879, 19684, 23749, 11298, 15363, 3168, 7233, 60846, 64911,
    52716, 56781, 44330, 48395, 36200, 40265, 32407, 28342, 24277,
    20212, 15891, 11826, 7761, 3696, 65439, 61374, 57309, 53244, 48923,
    44858, 40793, 36728, 37256, 33193, 45514, 41451, 53516, 49453,
    61774, 57711, 4224, 161, 12482, 8419, 20484, 16421, 28742, 24679,
    33721, 37784, 41979, 46042, 49981, 54044, 58239, 62302, 689, 4752,
    8947, 13010, 16949, 21012, 25207, 29270, 46570, 42443, 38312, 34185,
    62830, 58703, 54572, 50445, 13538, 9411, 5280, 1153, 29798, 25671,
    21540, 17413, 42971, 47098, 34713, 38840, 59231, 63358, 50973,
    55100, 9939, 14066, 1681, 5808, 26199, 30326, 17941, 22068, 55628,
    51565, 63758, 59695, 39368, 35305, 47498, 43435, 22596, 18533,
    30726, 26663, 6336, 2273, 14466, 10403, 52093, 56156, 60223, 64286,
    35833, 39896, 43963, 48026, 19061, 23124, 27191, 31254, 2801, 6864,
    10931, 14994, 64814, 60687, 56684, 52557, 48554, 44427, 40424,
    36297, 31782, 27655, 23652, 19525, 15522, 11395, 7392, 3265, 61215,
    65342, 53085, 57212, 44955, 49082, 36825, 40952, 28183, 32310,
    20053, 24180, 11923, 16050, 3793, 7920
>>

RECURSIVE checksum_bytes(_, _, _, _)
\* the loop of calc_checksum over the bytes data[from..to], in order, starting
\* from crc; the range is halved so that a long buffer does not nest one
\* evaluation per byte
checksum_bytes(data, from, to, crc) ==
    IF from > to THEN crc
    ELSE IF from = to
        THEN LET i3 == crc \div 256
             IN  bitxor((crc * 256) % 65536,
                        At(LOOKUP_TABLE, bitxor(data[from] % 256, i3)) % 65536)
    ELSE LET mid == (from + to) \div 2
             half == checksum_bytes(data, from, mid, crc)
         IN  IF half \in 0..65535 THEN checksum_bytes(data, mid + 1, to, half) ELSE half

\* calc_checksum started from 0xFFFF instead of 0
calc_checksum_initial_ffff(data) == checksum_bytes(data, 1, Len(data), 65535)

calc_checksum(data) == checksum_bytes(data, 1, Len(data), 0)

\* no frame built yet, nothing received, nothing parsed
Unparsed == [exit |-> "unparsed", value |-> <<>>]
NoWire == [origin |-> "none", cid |-> 0, payload |-> <<>>, seq |-> 0,
           raw |-> <<>>, damage |-> <<"none", 0>>, parsed |-> Unparsed,
           sums |-> <<>>]

(***************************************************************************)
(* The GattController of gatt.py.                                          *)
(***************************************************************************)
STATE_DISCONNECTED == "DISCONNECTED"
STATE_CONNECTING == "CONNECTING"
STATE_RESOLVING == "RESOLVING"
STATE_READY == "READY"
CID_CCT == 4098

\* None for a path; the code only tests paths for truth, which the empty
\* string fails like None
NoPath == ""
\* the BlueZ object paths of the light and of its two characteristics
DevicePath(target) == IF target[1] = "index" THEN "dev_scanned" ELSE "dev_by_mac"
WriteCharPath == "char_write"
ReadCharPath == "char_read"

\* GattController.__init__; the fields below the line are not the program's:
\* connect_pending is the Connect call BlueZ has not answered, op, target,
\* trail (the values _state took), raised and wrote record the last handler,
\* written is what WriteValue was given last, writes counts the frames
\* written since READY was entered (2 for two or more)
NewGatt ==
    [state |-> STATE_DISCONNECTED, seq |-> 0, discovered |-> 0,
     device_path |-> NoPath, write_char_path |-> NoPath, read_char_path |-> NoPath,
     props_signal |-> FALSE, notify_signal |-> FALSE,
     connect_pending |-> FALSE,
     op |-> "__init__", trail |-> <<STATE_DISCONNECTED>>, raised |-> FALSE,
     wrote |-> FALSE, written |-> <<>>, writes |-> 0]

\* _cleanup leaving the notification receiver registered
cleanup_keeping_notify(g) ==
    [g EXCEPT !.props_signal = FALSE,
              !.device_path = NoPath, !.write_char_path = NoPath,
              !.read_char_path = NoPath, !.state = STATE_DISCONNECTED]

\* GattController._cleanup
_cleanup(g) ==
    [g EXCEPT !.props_signal = FALSE, !.notify_signal = FALSE,
              !.device_path = NoPath, !.write_char_path = NoPath,
              !.read_char_path = NoPath, !.state = STATE_DISCONNECTED]

(***************************************************************************)
(* The ZyvegaMesh of mesh.py.                                              *)
(***************************************************************************)
\* unicast addresses a command may name
MeshDests == 2..3

\* no configuration file yet: _load_config returns a dict without nodes.
\* nodes is config["nodes"] in insertion order; the other fields are not the
\* program's: removed holds the addresses of removed nodes, last_to the data
\* sent last to each destination, op, sent and given record the last call
NewZyvegaMesh ==
    [nodes |-> <<>>, removed |-> {}, last_to |-> [d \in MeshDests |-> <<>>],
     op |-> <<"__init__">>, sent |-> <<>>, given |-> None]

\* struct.pack("<h", v): two's complement, low byte first
pack_le16_signed(v) == pack_le16((v + 65536) % 65536)

\* int(x) of the quotient num / den: rounded towards zero
int_div(num, den) == IF num >= 0 THEN num \div den ELSE 0 - ((0 - num) \div den)

\* level = int((percent / 100.0) * 65535 - 32768)
generic_level(percent) == int_div(percent * 65535 - 32768 * 100, 100)

\* data = struct.pack("<HBB", 0x8203, 1 if on else 0, 0)
onoff_data(on) == pack_le16(33283) \o <<IF on THEN 1 ELSE 0, 0>>

\* data = struct.pack("<HhB", 0x8206, level, 0)
level_data(percent) == pack_le16(33286) \o pack_le16_signed(generic_level(percent)) \o <<0>>

\* _get_target_unicast: the address given, or the first node's; None here
\* stands for the RuntimeError raised when there is no node
_get_target_unicast(cfg, unicast) ==
    IF unicast # None THEN unicast
    ELSE IF Len(cfg) = 0 THEN None
    ELSE cfg[1].unicast_address

RECURSIVE first_unused(_, _)
\* while unicast in used_addrs: unicast += 1
first_unused(used_addrs, unicast) ==
    IF unicast \in used_addrs THEN first_unused(used_addrs, unicast + 1) ELSE unicast

\* the address provision picks: 2 or the first above not in the node table
provision_address(cfg) ==
    first_unused({cfg[i].unicast_address : i \in 1..Len(cfg)} \cup {1}, 2)

\* position of the entry with key uuid in the node table, 0 if none
key_index(cfg, uuid) ==
    IF \E i \in 1..Len(cfg) : cfg[i].uuid = uuid
    THEN CHOOSE i \in 1..Len(cfg) : cfg[i].uuid = uuid
    ELSE 0

\* nodes[uuid] = {...}: replaced in place or added at the end
nodes_set(cfg, uuid, unicast) ==
    LET node == [uuid |-> uuid, unicast_address |-> unicast] IN
    IF key_index(cfg, uuid) # 0 THEN [cfg EXCEPT ![key_index(cfg, uuid)] = node]
    ELSE Append(cfg, node)

\* position of the first node with the address, 0 if none
address_index(cfg, unicast) ==
    IF \E i \in 1..Len(cfg) : cfg[i].unicast_address = unicast
    THEN CHOOSE i \in 1..Len(cfg) :
             /\ cfg[i].unicast_address = unicast
             /\ \A j \in 1..(i - 1) : cfg[j].unicast_address # unicast
    ELSE 0

\* del nodes[key] for the first node with the address
nodes_del(cfg, unicast) ==
    LET i == address_index(cfg, unicast) IN
    IF i = 0 THEN cfg
    ELSE SubSeq(cfg, 1, i - 1) \o SubSeq(cfg, i + 1, Len(cfg))

(***************************************************************************)
(* State.                                                                  *)
(***************************************************************************)
VARIABLES
    token,          \* self._token: a token or None
    node_path,      \* self._node_path: "" for None
    scan_results,   \* self._scan_results: list of [rssi, data]
    nodes,          \* self._nodes: dict in insertion order, list of [key, info]
    next_unicast,   \* self._next_unicast
    prov_uuid,      \* self._prov_uuid: 16 bytes or NoBytes
    token_file,     \* TOKEN_PATH on disk
    nodes_file,     \* NODES_PATH on disk
    started,        \* initialize() was called in this process
    net_call,       \* the Attach or CreateNetwork call the daemon has not answered
    daemon_prov,    \* the daemon's add-node session, or NoSession
    call_errors,    \* AddNode error replies the daemon has not delivered yet
    sent,           \* D-Bus requests the last handler issued, in order
    raised,         \* the last handler ended in an exception it did not catch
    last,           \* the last handler and its arguments
    stage,          \* per node key: configuration steps seen in order (history)
    wire,           \* the ZYBL link of gatt.py: the frame built last, the bytes
                    \* that arrive, and what zybl_parse made of them
    gatt,           \* the GattController of gatt.py: its fields, the calls it
                    \* has pending, and what its last handler did (history)
    zmesh           \* the ZyvegaMesh of mesh.py: the nodes of its configuration
                    \* file, and what it sent and removed (history)

vars == <<token, node_path, scan_results, nodes, next_unicast, prov_uuid,
          token_file, nodes_file, started, net_call, daemon_prov,
          call_errors, sent, raised, last, stage, wire, gatt, zmesh>>

\* what a handler of the mesh controller has no part in
beside_mesh == <<wire, gatt, zmesh>>

controller == <<token, node_path, scan_results, nodes, next_unicast, prov_uuid>>
disk == <<token_file, nodes_file>>
daemon == <<net_call, daemon_prov, call_errors>>

NoSession == [phase |-> "none", uuid |-> NoBytes, unicast |-> None, count |-> None]

\* self._node_iface and self._mgmt_iface are set by _setup_node_interfaces
\* when _node_path is set, and cleared together with it
node_iface == node_path # ""
mgmt_iface == node_path # ""

NodeKeys == {hex(u) : u \in DeviceUuids}

(***************************************************************************)
(* The node table: a dict keyed by uuid_hex, kept in insertion order.      *)
(***************************************************************************)
new_node_info(unicast, count) ==
    [unicast |-> unicast, count |-> count, company_id |-> None,
     vendor_model_id |-> None, configured |-> FALSE]

has_key(d, key) == \E i \in 1..Len(d) : d[i].key = key

\* setdefault in place of the assignment: an existing record is kept
dict_setdefault(d, key, info) ==
    IF has_key(d, key) THEN d ELSE Append(d, [key |-> key, info |-> info])

\* d[key] = info
dict_set(d, key, info) ==
    IF has_key(d, key)
    THEN [i \in 1..Len(d) |-> IF d[i].key = key THEN [key |-> key, info |-> info] ELSE d[i]]
    ELSE Append(d, [key |-> key, info |-> info])

\* index of the first entry the loop "for info in nodes.values(): if
\* info["unicast"] == unicast" stops at, 0 when it finds none
first_at(d, unicast) ==
    IF \E i \in 1..Len(d) : d[i].info.unicast = unicast
    THEN CHOOSE i \in 1..Len(d) :
            /\ d[i].info.unicast = unicast
            /\ \A j \in 1..(i - 1) : d[j].info.unicast # unicast
    ELSE 0

\* json.dumps(self._nodes): null, true and false are JSON's own values
json_value(v) ==
    IF v = None THEN <<"null">> ELSE <<"number", v>>
json_bool(b) == IF b THEN <<"true">> ELSE <<"false">>
json_dumps(d) ==
    [i \in 1..Len(d) |->
        <<d[i].key,
          <<"unicast", json_value(d[i].info.unicast)>>,
          <<"count", json_value(d[i].info.count)>>,
          <<"company_id", json_value(d[i].info.company_id)>>,
          <<"vendor_model_id", json_value(d[i].info.vendor_model_id)>>,
          <<"configured", json_bool(d[i].info.configured)>> >>]

\* json.loads(text)
python_value(j) == IF j[1] = "null" THEN None ELSE j[2]
python_bool(j) == j[1] = "true"
json_loads(text) ==
    [i \in 1..Len(text) |->
        [key |-> text[i][1],
         info |-> [unicast |-> python_value(text[i][2][2]),
                   count |-> python_value(text[i][3][2]),
                   company_id |-> python_value(text[i][4][2]),
                   vendor_model_id |-> python_value(text[i][5][2]),
                   configured |-> python_bool(text[i][6][2])]]]

\* a write-behind save: the file gets the table as it was before the change
save_nodes_behind(d) == File(json_dumps(nodes))

\* NODES_PATH.write_text(json.dumps(self._nodes, indent=2) + "\n")
_save_nodes(d) == File(json_dumps(d))

\* TOKEN_PATH.write_text(f"{self._token:016x}\n")
_save_token(t) == File(format_hex(t, 16))

RECURSIVE load_next_unicast(_, _, _)
\* the loop of _load_state over the loaded nodes, from entry i on
load_next_unicast(d, i, next) ==
    IF i > Len(d) THEN next
    ELSE load_next_unicast(d, i + 1,
            IF d[i].info.unicast >= next THEN d[i].info.unicast + 1 ELSE next)

\* the fields _load_state leaves behind in a new controller
loaded_token == IF token_file.exists THEN int16(token_file.text) ELSE None
loaded_nodes == IF nodes_file.exists THEN json_loads(nodes_file.text) ELSE <<>>
loaded_next_unicast == load_next_unicast(loaded_nodes, 1, FIRST_UNICAST)

\* a handler of the mesh controller ran; it has no part in the ZYBL link
Did(op, args, requests, exception) ==
    /\ last' = <<op, args>>
    /\ sent' = requests
    /\ raised' = exception
    /\ UNCHANGED beside_mesh

(***************************************************************************)
(* Construction.                                                           *)
(***************************************************************************)
Init ==
    /\ token = None
    /\ node_path = ""
    /\ scan_results = <<>>
    /\ nodes = <<>>
    /\ next_unicast = FIRST_UNICAST
    /\ prov_uuid = NoBytes
    /\ token_file = NoFile
    /\ nodes_file = NoFile
    /\ started = FALSE
    /\ net_call = "none"
    /\ daemon_prov = NoSession
    /\ call_errors = 0
    /\ sent = <<>>
    /\ raised = FALSE
    /\ last = <<"__init__", <<>>>>
    /\ stage = [k \in NodeKeys |-> 0]
    /\ wire = NoWire
    /\ gatt = NewGatt
    /\ zmesh = NewZyvegaMesh

\* the process ends and the program is run again: __init__ and _load_state;
\* what the daemon still held for the old process is dropped
Restart ==
    /\ token' = loaded_token
    /\ node_path' = ""
    /\ scan_results' = <<>>
    /\ nodes' = loaded_nodes
    /\ next_unicast' = loaded_next_unicast
    /\ prov_uuid' = NoBytes
    /\ started' = FALSE
    /\ net_call' = "none"
    /\ daemon_prov' = NoSession
    /\ call_errors' = 0
    /\ Did("__init__", <<>>, <<>>, FALSE)
    /\ UNCHANGED <<disk, stage>>

(***************************************************************************)
(* Network lifecycle.                                                      *)
(***************************************************************************)
\* initialize(): called once, when the program starts
initialize ==
    /\ ~started
    /\ started' = TRUE
    /\ IF token # None
       THEN /\ net_call' = "attach"
            /\ Did("initialize", <<>>, <<<<"Attach", token>>>>, FALSE)
       ELSE /\ net_call' = "create"
            /\ Did("initialize", <<>>, <<<<"CreateNetwork">>>>, FALSE)
    /\ UNCHANGED <<controller, disk, daemon_prov, call_errors, stage>>

\* reply_handler of Attach: the daemon names the node's object path
_on_attach_reply ==
    /\ net_call = "attach"
    /\ net_call' = "none"
    /\ node_path' = "/org/bluez/mesh/node"
    /\ Did("_on_attach_reply", <<>>, <<>>, FALSE)
    /\ UNCHANGED <<token, scan_results, nodes, next_unicast, prov_uuid, disk,
                   started, daemon_prov, call_errors, stage>>

\* error_handler of Attach: forget the token and create a network
_on_attach_error ==
    /\ net_call = "attach"
    /\ net_call' = "create"
    /\ token' = None
    /\ Did("_on_attach_error", <<>>, <<<<"CreateNetwork">>>>, FALSE)
    /\ UNCHANGED <<node_path, scan_results, nodes, next_unicast, prov_uuid, disk,
                   started, daemon_prov, call_errors, stage>>

\* Application1.JoinFailed, and the error_handler of CreateNetwork: print only
JoinFailed ==
    /\ net_call = "create"
    /\ net_call' = "none"
    /\ Did("JoinFailed", <<>>, <<>>, FALSE)
    /\ UNCHANGED <<controller, disk, started, daemon_prov, call_errors, stage>>

\* JoinComplete that attaches without writing the token file
join_complete_without_save(t) ==
    /\ net_call = "create"
    /\ token' = t
    /\ net_call' = "attach"
    /\ last' = <<"_on_join_complete", <<t>>>>
    /\ sent' = <<<<"Attach", t>>>>
    /\ raised' = FALSE
    /\ UNCHANGED <<node_path, scan_results, nodes, next_unicast, prov_uuid,
                   disk, started, daemon_prov, call_errors, stage>>
    /\ UNCHANGED beside_mesh

\* Application1.JoinComplete(token)
_on_join_complete(t) ==
    /\ net_call = "create"
    /\ token' = t
    /\ token_file' = _save_token(t)
    /\ net_call' = "attach"
    /\ Did("_on_join_complete", <<t>>, <<<<"Attach", t>>>>, FALSE)
    /\ UNCHANGED <<node_path, scan_results, nodes, next_unicast, prov_uuid,
                   nodes_file, started, daemon_prov, call_errors, stage>>

(***************************************************************************)
(* Scanning.                                                               *)
(***************************************************************************)
\* a scan started without self._scan_results.clear()
start_scan_keeping_results(seconds) ==
    /\ IF ~mgmt_iface
       THEN /\ last' = <<"start_scan", <<seconds>>>> /\ sent' = <<>> /\ raised' = FALSE
       ELSE /\ last' = <<"start_scan", <<seconds>>>>
            /\ sent' = <<<<"UnprovisionedScan", seconds>>>>
            /\ raised' = FALSE
    /\ UNCHANGED <<controller, disk, started, daemon, stage>>
    /\ UNCHANGED beside_mesh

start_scan(seconds) ==
    /\ IF ~mgmt_iface
       THEN /\ Did("start_scan", <<seconds>>, <<>>, FALSE)
            /\ UNCHANGED scan_results
       ELSE /\ scan_results' = <<>>
            /\ Did("start_scan", <<seconds>>, <<<<"UnprovisionedScan", seconds>>>>, FALSE)
    /\ UNCHANGED <<token, node_path, nodes, next_unicast, prov_uuid, disk, started,
                   net_call, daemon_prov, call_errors, stage>>

\* index of the entry whose data equals data, 0 when there is none
scan_index_of(data) ==
    IF \E i \in 1..Len(scan_results) : scan_results[i].data = data
    THEN CHOOSE i \in 1..Len(scan_results) :
            /\ scan_results[i].data = data
            /\ \A j \in 1..(i - 1) : scan_results[j].data # data
    ELSE 0

\* Provisioner1.ScanResult(rssi, data, options)
_on_scan_result(rssi, data) ==
    /\ LET i == scan_index_of(data) IN
       IF i # 0
       THEN scan_results' = [scan_results EXCEPT ![i] = [rssi |-> rssi, data |-> data]]
       ELSE scan_results' = Append(scan_results, [rssi |-> rssi, data |-> data])
    /\ Did("_on_scan_result", <<rssi, data>>, <<>>, FALSE)
    /\ UNCHANGED <<token, node_path, nodes, next_unicast, prov_uuid, disk, started,
                   daemon, stage>>

(***************************************************************************)
(* Provisioning.                                                           *)
(***************************************************************************)
\* provision_device without the test index < 0: a negative index counts from
\* the end of the list, and raises IndexError when it reaches past its start
provision_device_negative_index(index, answer) ==
    /\ IF ~mgmt_iface \/ index >= Len(scan_results)
       THEN /\ last' = <<"provision_device", <<index>>>>
            /\ sent' = <<>> /\ raised' = FALSE
            /\ UNCHANGED <<prov_uuid, daemon_prov, call_errors>>
       ELSE IF index < 0 /\ Len(scan_results) + index < 0
       THEN /\ last' = <<"provision_device", <<index>>>>
            /\ sent' = <<>> /\ raised' = TRUE
            /\ UNCHANGED <<prov_uuid, daemon_prov, call_errors>>
       ELSE LET at == IF index < 0 THEN Len(scan_results) + index ELSE index
                uuid_bytes == Slice(scan_results[at + 1].data, 0, UUID_LEN)
            IN  /\ prov_uuid' = uuid_bytes
                /\ last' = <<"provision_device", <<index>>>>
                /\ sent' = <<<<"AddNode", uuid_bytes>>>> /\ raised' = FALSE
                /\ IF answer = "accept"
                   THEN /\ daemon_prov.phase = "none"
                        /\ daemon_prov' = [phase |-> "accepted", uuid |-> uuid_bytes,
                                           unicast |-> None, count |-> None]
                        /\ UNCHANGED call_errors
                   ELSE /\ call_errors < MaxCallErrors
                        /\ call_errors' = call_errors + 1
                        /\ UNCHANGED daemon_prov
    /\ UNCHANGED <<token, node_path, scan_results, nodes, next_unicast, disk,
                   started, net_call, stage>>
    /\ UNCHANGED beside_mesh

\* provision_device(index).  The daemon takes the AddNode call when it runs
\* no add-node session, and otherwise answers it with an error later.
\* provision_device without the test for the management interface
provision_device_unattached(index, answer) ==
    /\ IF index < 0 \/ index >= Len(scan_results)
       THEN /\ last' = <<"provision_device", <<index>>>>
            /\ sent' = <<>>
            /\ UNCHANGED <<prov_uuid, daemon_prov, call_errors>>
       ELSE LET data == scan_results[index + 1].data
                uuid_bytes == Slice(data, 0, UUID_LEN)
            IN  /\ prov_uuid' = uuid_bytes
                /\ last' = <<"provision_device", <<index>>>>
                /\ sent' = <<<<"AddNode", uuid_bytes>>>>
                /\ IF answer = "accept"
                   THEN /\ daemon_prov.phase = "none"
                        /\ daemon_prov' = [phase |-> "accepted", uuid |-> uuid_bytes,
                                           unicast |-> None, count |-> None]
                        /\ UNCHANGED call_errors
                   ELSE /\ call_errors < MaxCallErrors
                        /\ call_errors' = call_errors + 1
                        /\ UNCHANGED daemon_prov
    /\ raised' = FALSE
    /\ UNCHANGED <<token, node_path, scan_results, nodes, next_unicast, disk,
                   started, net_call, stage>>
    /\ UNCHANGED beside_mesh

provision_device(index, answer) ==
    /\ IF ~mgmt_iface \/ index < 0 \/ index >= Len(scan_results)
       THEN /\ Did("provision_device", <<index>>, <<>>, FALSE)
            /\ UNCHANGED <<prov_uuid, daemon_prov, call_errors>>
       ELSE LET data == scan_results[index + 1].data
                uuid_bytes == Slice(data, 0, UUID_LEN)
            IN  /\ prov_uuid' = uuid_bytes
                /\ Did("provision_device", <<index>>, <<<<"AddNode", uuid_bytes>>>>, FALSE)
                /\ IF answer = "accept"
                   THEN /\ daemon_prov.phase = "none"
                        /\ daemon_prov' = [phase |-> "accepted", uuid |-> uuid_bytes,
                                           unicast |-> None, count |-> None]
                        /\ UNCHANGED call_errors
                   ELSE /\ call_errors < MaxCallErrors
                        /\ call_errors' = call_errors + 1
                        /\ UNCHANGED daemon_prov
    /\ UNCHANGED <<token, node_path, scan_results, nodes, next_unicast, disk,
                   started, net_call, stage>>

\* error_handler of AddNode
_on_add_node_call_error ==
    /\ call_errors > 0
    /\ call_errors' = call_errors - 1
    /\ prov_uuid' = NoBytes
    /\ Did("_on_add_node_call_error", <<>>, <<>>, FALSE)
    /\ UNCHANGED <<token, node_path, scan_results, nodes, next_unicast, disk,
                   started, net_call, daemon_prov, stage>>

\* an address request that claims the offered range at once
request_prov_data_claiming(count) ==
    /\ daemon_prov.phase = "accepted"
    /\ daemon_prov' = [daemon_prov EXCEPT !.phase = "offered",
                                          !.unicast = next_unicast, !.count = count]
    /\ next_unicast' = next_unicast + count
    /\ last' = <<"_on_request_prov_data", <<count>>>>
    /\ sent' = <<>>
    /\ raised' = FALSE
    /\ UNCHANGED <<token, node_path, scan_results, nodes, prov_uuid, disk, started,
                   net_call, call_errors, stage>>
    /\ UNCHANGED beside_mesh

\* Provisioner1.RequestProvData(count): returns (net_index 0, unicast); the
\* daemon keeps the address it was given for its session
_on_request_prov_data(count) ==
    /\ daemon_prov.phase = "accepted"
    /\ LET unicast == next_unicast IN
       daemon_prov' = [daemon_prov EXCEPT !.phase = "offered",
                                          !.unicast = unicast, !.count = count]
    /\ Did("_on_request_prov_data", <<count>>, <<>>, FALSE)
    /\ UNCHANGED <<controller, disk, started, net_call, call_errors, stage>>

\* a completion that moves the next address past unicast only, as _load_state
\* does
add_node_complete_next_plus_one(uuid_bytes, unicast, count) ==
    /\ LET uuid_hex == hex(uuid_bytes)
           nodes1 == dict_set(nodes, uuid_hex, new_node_info(unicast, count))
       IN  /\ nodes' = nodes1
           /\ next_unicast' = unicast + 1
           /\ nodes_file' = _save_nodes(nodes1)
           /\ prov_uuid' = NoBytes
           /\ stage' = [stage EXCEPT ![uuid_hex] = 0]
    /\ daemon_prov' = NoSession
    /\ last' = <<"_on_add_node_complete", <<uuid_bytes, unicast, count>>>>
    /\ sent' = <<>>
    /\ raised' = FALSE
    /\ UNCHANGED <<token, node_path, scan_results, token_file, started, net_call,
                   call_errors>>
    /\ UNCHANGED beside_mesh

\* Provisioner1.AddNodeComplete(uuid, unicast, count)
_on_add_node_complete(uuid_bytes, unicast, count) ==
    /\ LET uuid_hex == hex(uuid_bytes)
           nodes1 == dict_set(nodes, uuid_hex, new_node_info(unicast, count))
       IN  /\ nodes' = nodes1
           /\ next_unicast' = unicast + count
           /\ nodes_file' = _save_nodes(nodes1)
           /\ prov_uuid' = NoBytes
           /\ stage' = [stage EXCEPT ![uuid_hex] = 0]
    /\ daemon_prov' = NoSession
    /\ Did("_on_add_node_complete", <<uuid_bytes, unicast, count>>, <<>>, FALSE)
    /\ UNCHANGED <<token, node_path, scan_results, token_file, started, net_call,
                   call_errors>>

\* a failure callback that forgets to clear the in-flight UUID
add_node_failed_keeping_uuid(uuid_bytes) ==
    /\ daemon_prov' = NoSession
    /\ last' = <<"_on_add_node_failed", <<uuid_bytes>>>>
    /\ sent' = <<>>
    /\ raised' = FALSE
    /\ UNCHANGED <<controller, disk, started, net_call, call_errors, stage>>
    /\ UNCHANGED beside_mesh

\* Provisioner1.AddNodeFailed(uuid, reason)
_on_add_node_failed(uuid_bytes) ==
    /\ prov_uuid' = NoBytes
    /\ daemon_prov' = NoSession
    /\ Did("_on_add_node_failed", <<uuid_bytes>>, <<>>, FALSE)
    /\ UNCHANGED <<token, node_path, scan_results, nodes, next_unicast, disk,
                   started, net_call, call_errors, stage>>

(***************************************************************************)
(* Configuration.                                                          *)
(***************************************************************************)
CompositionGet == _opcode_bytes(OP_COMPOSITION_DATA_GET) \o <<0>>

\* configure_device(unicast)
configure_device(unicast) ==
    /\ IF ~node_iface \/ first_at(nodes, unicast) = 0
       THEN Did("configure_device", <<unicast>>, <<>>, FALSE)
       ELSE Did("configure_device", <<unicast>>,
                <<<<"DevKeySend", unicast, CompositionGet>>>>, FALSE)
    /\ UNCHANGED <<controller, disk, started, daemon, stage>>

\* _add_app_key(unicast): the requests it issues and whether it raises.
\* answer is the daemon's answer to CreateAppKey; without a management
\* interface the call on None raises AttributeError, which nothing catches.
_add_app_key(unicast, answer) ==
    IF ~mgmt_iface THEN [sent |-> <<>>, raised |-> TRUE]
    ELSE IF answer = "Failed"
        THEN [sent |-> <<<<"CreateAppKey", 0, 0>>>>, raised |-> FALSE]
    ELSE [sent |-> <<<<"CreateAppKey", 0, 0>>, <<"AddAppKey", unicast, 0, 0>>>>,
          raised |-> FALSE]

\* a bind payload that starts with the opcode of the status it expects back
bind_payload_with_status_opcode(unicast, company_id, model_id) ==
    _opcode_bytes(OP_MODEL_APP_STATUS) \o pack_le16(unicast) \o pack_le16(0)
        \o pack_le16(company_id) \o pack_le16(model_id)

\* the access payload of ModelAppBind
bind_payload(unicast, company_id, model_id) ==
    _opcode_bytes(OP_MODEL_APP_BIND) \o pack_le16(unicast) \o pack_le16(0)
        \o pack_le16(company_id) \o pack_le16(model_id)

\* _bind_model(unicast, company_id, model_id)
_bind_model(unicast, company_id, model_id) ==
    IF ~node_iface THEN [sent |-> <<>>, raised |-> TRUE]
    ELSE [sent |-> <<<<"DevKeySend", unicast, bind_payload(unicast, company_id, model_id)>>>>,
          raised |-> FALSE]

\* a missing status byte taken for success
status_of_default_ok(params) == IF Len(params) > 0 THEN At(params, 0) ELSE 0

\* status = params[0] if len(params) > 0 else 0xFF
status_of(params) == IF Len(params) > 0 THEN At(params, 0) ELSE NO_STATUS

\* _handle_composition_data(source, params)
_handle_composition_data(source, params) ==
    LET vendor_models == composition_vendor_models(params)
        i == first_at(nodes, source)
    IN  IF vendor_models = <<>>
        THEN /\ sent' = <<>>
             /\ raised' = FALSE
             /\ UNCHANGED <<nodes, nodes_file, stage>>
        ELSE \E answer \in CreateAnswers :
             LET v_cid == vendor_models[1][1]
                 v_mid == vendor_models[1][2]
                 nodes1 == IF i = 0 THEN nodes
                           ELSE [nodes EXCEPT ![i].info.company_id = v_cid,
                                              ![i].info.vendor_model_id = v_mid]
                 r == _add_app_key(source, answer)
             IN  /\ nodes' = nodes1
                 /\ nodes_file' = IF i = 0 THEN nodes_file ELSE _save_nodes(nodes1)
                 /\ stage' = IF i # 0 /\ stage[nodes[i].key] = 0
                             THEN [stage EXCEPT ![nodes[i].key] = 1] ELSE stage
                 /\ sent' = r.sent
                 /\ raised' = r.raised

\* an app-key check that takes only a missing status byte for a failure
appkey_added_unless_missing(status) == status # NO_STATUS

\* if status == 0, for the status of an app-key-status response
appkey_added(status) == status = 0

\* index of the first node at source that has a company id, 0 when none
first_bindable(source) ==
    IF \E i \in 1..Len(nodes) :
            nodes[i].info.unicast = source /\ nodes[i].info.company_id # None
    THEN CHOOSE i \in 1..Len(nodes) :
            /\ nodes[i].info.unicast = source /\ nodes[i].info.company_id # None
            /\ \A j \in 1..(i - 1) :
                 ~(nodes[j].info.unicast = source /\ nodes[j].info.company_id # None)
    ELSE 0

\* the OP_APPKEY_STATUS branch of _on_dev_key_message_received
handle_appkey_status(source, params) ==
    LET i == first_bindable(source) IN
    IF appkey_added(status_of(params)) /\ i # 0
    THEN LET r == _bind_model(source, nodes[i].info.company_id,
                              nodes[i].info.vendor_model_id)
             k == nodes[i].key
             s1 == IF stage[k] = 1 THEN 2 ELSE stage[k]
             s2 == IF s1 = 2 /\ ~r.raised THEN 3 ELSE s1
         IN  /\ sent' = r.sent
             /\ raised' = r.raised
             /\ stage' = [stage EXCEPT ![k] = s2]
             /\ UNCHANGED <<nodes, nodes_file>>
    ELSE /\ sent' = <<>>
         /\ raised' = FALSE
         /\ UNCHANGED <<nodes, nodes_file, stage>>

\* the OP_MODEL_APP_STATUS branch of _on_dev_key_message_received
handle_model_app_status(source, params) ==
    LET i == first_at(nodes, source) IN
    /\ IF status_of(params) = 0 /\ i # 0
       THEN LET nodes1 == [nodes EXCEPT ![i].info.configured = TRUE] IN
            /\ nodes' = nodes1
            /\ nodes_file' = _save_nodes(nodes1)
       ELSE UNCHANGED <<nodes, nodes_file>>
    /\ sent' = <<>>
    /\ raised' = FALSE
    /\ UNCHANGED stage

\* Element1.DevKeyMessageReceived(source, remote, net_index, data); remote and
\* net_index are not read
_on_dev_key_message_received(source, data) ==
    /\ LET opcode == _parse_opcode(data)[1]
           params == _parse_opcode(data)[2]
       IN  IF opcode = OP_COMPOSITION_DATA_STATUS
               THEN _handle_composition_data(source, params)
           ELSE IF opcode = OP_APPKEY_STATUS
               THEN handle_appkey_status(source, params)
           ELSE IF opcode = OP_MODEL_APP_STATUS
               THEN handle_model_app_status(source, params)
           ELSE /\ sent' = <<>>
                /\ raised' = FALSE
                /\ UNCHANGED <<nodes, nodes_file, stage>>
    /\ last' = <<"_on_dev_key_message_received", <<source, data>>>>
    /\ UNCHANGED <<token, node_path, scan_results, next_unicast, prov_uuid,
                   token_file, started, daemon>>
    /\ UNCHANGED beside_mesh

(***************************************************************************)
(* Reset.                                                                  *)
(***************************************************************************)
\* reset_network()
reset_network ==
    /\ Did("reset_network", <<>>,
           IF token # None THEN <<<<"Leave", token>>>> ELSE <<>>, FALSE)
    /\ token' = None
    /\ node_path' = ""
    /\ nodes' = <<>>
    /\ scan_results' = <<>>
    /\ next_unicast' = FIRST_UNICAST
    /\ token_file' = NoFile
    /\ nodes_file' = NoFile
    /\ stage' = [k \in NodeKeys |-> 0]
    /\ UNCHANGED <<prov_uuid, started, daemon>>

(***************************************************************************)
(* The controller with its environment.                                    *)
(***************************************************************************)
\* network lifecycle, scanning and the restart of the program
Lifecycle ==
    \/ Restart
    \/ initialize
    \/ _on_attach_reply
    \/ _on_attach_error
    \/ JoinFailed
    \/ \E t \in Tokens : _on_join_complete(t)
    \/ start_scan(10)
    \/ \E rssi \in Rssi, data \in ScanData :
          /\ mgmt_iface
          /\ _on_scan_result(rssi, data)
    \/ reset_network

\* the operator's provision command and the daemon's add-node session, for
\* devices that report one of the element counts in counts
Provisioning(counts, max_addr, answers) ==
    \/ \E index \in -1..Cardinality(ScanData), answer \in answers :
          provision_device(index, answer)
    \/ \E count \in counts :
          /\ next_unicast + count - 1 <= max_addr
          /\ _on_request_prov_data(count)
    \/ /\ daemon_prov.phase = "offered"
       /\ _on_add_node_complete(daemon_prov.uuid, daemon_prov.unicast, daemon_prov.count)
    \/ /\ daemon_prov.phase # "none"
       /\ _on_add_node_failed(daemon_prov.uuid)

\* the operator's configure command and the messages of remote nodes
Configuration ==
    \/ \E unicast \in FIRST_UNICAST..MaxConfigured : configure_device(unicast)
    \/ \E source \in FIRST_UNICAST..MaxConfigured, data \in Messages :
          _on_dev_key_message_received(source, data)

\* provisioning of devices with any element count, no configuration traffic
NextProvisioning ==
    \/ Lifecycle
    \/ Provisioning(Counts, MaxAddr, {"accept", "reject"})
    \/ _on_add_node_call_error

SpecProvisioning == Init /\ [][NextProvisioning]_vars

\* provisioning of single-element devices, no AddNode call refused, and the
\* configuration of the nodes
Next ==
    \/ Lifecycle
    \/ Provisioning({1}, MaxConfigured, {"accept"})
    \/ Configuration

Spec == Init /\ [][Next]_vars

\* the success response a remote node at unicast gives to a request the last
\* handler sent it: composition data with a vendor model to a composition
\* get, app-key status 0 to AddAppKey, model-app status 0 to a bind
answers(unicast, data) ==
    \E i \in 1..Len(sent) :
        \/ /\ sent[i] = <<"DevKeySend", unicast, CompositionGet>>
           /\ data = Msg(OP_COMPOSITION_DATA_STATUS, CompExample)
        \/ /\ sent[i] = <<"AddAppKey", unicast, 0, 0>>
           /\ data = Msg(OP_APPKEY_STATUS, <<0, 0, 0, 0>>)
        \/ /\ sent[i][1] = "DevKeySend"
           /\ sent[i][2] = unicast
           /\ _parse_opcode(sent[i][3])[1] = OP_MODEL_APP_BIND
           /\ data = Msg(OP_MODEL_APP_STATUS, <<0>>)

\* a request to a remote node is in flight
unanswered ==
    \E unicast \in FIRST_UNICAST..MaxConfigured, data \in Messages : answers(unicast, data)

\* the remote node's answer arrives
Answer ==
    \E source \in FIRST_UNICAST..MaxConfigured, data \in Messages :
        /\ answers(source, data)
        /\ _on_dev_key_message_received(source, data)

\* one run of the program on a network that is not reset, with remote nodes
\* that answer every request with success before anything else happens
NextAnswered ==
    \/ Answer
    \/ ~unanswered /\ initialize
    \/ ~unanswered /\ _on_attach_reply
    \/ ~unanswered /\ _on_attach_error
    \/ ~unanswered /\ JoinFailed
    \/ \E t \in Tokens : ~unanswered /\ _on_join_complete(t)
    \/ ~unanswered /\ start_scan(10)
    \/ \E rssi \in Rssi, data \in ScanData :
          /\ ~unanswered
          /\ mgmt_iface
          /\ _on_scan_result(rssi, data)
    \/ ~unanswered /\ Provisioning({1}, MaxConfigured, {"accept"})
    \/ \E unicast \in FIRST_UNICAST..MaxConfigured :
          ~unanswered /\ configure_device(unicast)

\* every request is answered in the end
SpecAnswered == Init /\ [][NextAnswered]_vars /\ WF_vars(Answer)

\* the advertisement of the one light whose responses are followed
ResponderScanData == {[i \in 1..UUID_LEN |-> 170]}

\* one run of the program on a network that is not reset, with one light in
\* range: the daemon delivers the responses of remote nodes while the
\* application is attached
NextResponses ==
    \/ initialize
    \/ _on_attach_reply
    \/ \E t \in Tokens : _on_join_complete(t)
    \/ start_scan(10)
    \/ \E rssi \in Rssi, data \in ResponderScanData :
          /\ mgmt_iface
          /\ _on_scan_result(rssi, data)
    \/ Provisioning({1}, MaxConfigured, {"accept"})
    \/ \E unicast \in FIRST_UNICAST..MaxConfigured : configure_device(unicast)
    \/ \E source \in FIRST_UNICAST..MaxConfigured, data \in Responses :
          /\ node_iface
          /\ _on_dev_key_message_received(source, data)

SpecResponses == Init /\ [][NextResponses]_vars

\* what the daemon reports in ScanResult: the UUID alone, or the UUID with
\* the two OOB information bytes of the beacon behind it
ScanEvents ==
    {[i \in 1..UUID_LEN |-> 170],
     [i \in 1..UUID_LEN |-> 170] \o <<0, 1>>,
     [i \in 1..UUID_LEN |-> 187] \o <<0, 1>>}
ScanRssi == {-70, -60}

\* scanning on a network that may be reset: the operator scans and picks a
\* device, the daemon reports every beacon it hears
NextScanning ==
    \/ initialize
    \/ _on_attach_reply
    \/ \E t \in Tokens : _on_join_complete(t)
    \/ start_scan(10)
    \/ \E rssi \in ScanRssi, data \in ScanEvents :
          /\ mgmt_iface
          /\ _on_scan_result(rssi, data)
    \/ \E index \in -1..Cardinality(ScanEvents) : provision_device(index, "accept")
    \/ /\ daemon_prov.phase # "none"
       /\ _on_add_node_failed(daemon_prov.uuid)
    \/ reset_network

SpecScanning == Init /\ [][NextScanning]_vars

(***************************************************************************)
(* The operator's commands before the controller is attached, after a      *)
(* restart and after a reset: one light, results of an earlier scan may    *)
(* still arrive while the controller is not attached.                      *)
(***************************************************************************)
NextAttachment ==
    \/ Restart
    \/ initialize
    \/ _on_attach_reply
    \/ \E t \in Tokens : _on_join_complete(t)
    \/ start_scan(10)
    \/ \E data \in ResponderScanData :
          /\ started
          /\ _on_scan_result(0 - 70, data)
    \/ Provisioning({1}, MaxConfigured, {"accept"})
    \/ \E unicast \in FIRST_UNICAST..MaxConfigured : configure_device(unicast)
    \/ reset_network

SpecAttachment == Init /\ [][NextAttachment]_vars

(***************************************************************************)
(* The frame codec on its own: one frame is built by zybl_frame or by the  *)
(* peer, the link may damage it, and zybl_parse reads what arrives.        *)
(***************************************************************************)
MaxPayload == 2
\* the longest payload whose data section still fits the one-byte length
MAX_PAYLOAD == 255 - 6
PayloadBytes == {0, 165}
RECURSIVE Payloads(_)
Payloads(n) ==
    IF n = 0 THEN {<<>>}
    ELSE Payloads(n - 1) \cup
         {Append(p, b) : p \in {q \in Payloads(n - 1) : Len(q) = n - 1}, b \in PayloadBytes}
LongPayload == [i \in 1..MAX_PAYLOAD |-> (7 * i) % 256]
TooLongPayload == [i \in 1..(MAX_PAYLOAD + 1) |-> (7 * i) % 256]
FramePayloads == Payloads(MaxPayload) \cup {LongPayload, TooLongPayload}
Seqs == {0, 1, 258, 65535, 65536}
Cids == {0, 4098, 65535}
\* data sections a peer may send, shorter than the six fixed bytes included
PeerSections == {<<>>, <<0, 1>>, <<0, 1, 1, 0>>, <<0, 1, 1, 0, 2>>,
                 <<0, 1, 1, 0, 2, 16>>, <<1, 1, 7, 0, 2, 16, 165>>}
TrailingBytes == {0, 255}
\* the bits flipped in a frame longer than 12 + MaxPayload bytes: the first,
\* a middle and the last bit of the longest data section
LongFlips == {8 * 4, 8 * 130 + 3, 8 * (10 + MAX_PAYLOAD) - 1}

mesh_vars == <<token, node_path, scan_results, nodes, next_unicast, prov_uuid,
               token_file, nodes_file, started, net_call, daemon_prov,
               call_errors, sent, raised, last, stage>>

\* what the frame codec has no part in
beside_wire == <<mesh_vars, gatt, zmesh>>

\* frame = zybl_frame(cid, payload, seq)
BuildFrame(cid, payload, seq) ==
    /\ wire.origin = "none"
    /\ wire' = IF zybl_frame_raises(cid, payload, seq)
               THEN [NoWire EXCEPT !.origin = "raised", !.cid = cid,
                                   !.payload = payload, !.seq = seq]
               ELSE [NoWire EXCEPT !.origin = "zybl_frame", !.cid = cid,
                                   !.payload = payload, !.seq = seq,
                                   !.raw = zybl_frame(cid, payload, seq)]
    /\ UNCHANGED beside_wire

\* the peer sends a frame of its own making: any data section, right CRC
PeerFrame(data_section) ==
    /\ wire.origin = "none"
    /\ wire' = [NoWire EXCEPT !.origin = "peer",
                !.raw = ZYBL_HEADER \o <<Len(data_section), 0>> \o data_section
                        \o pack_le16(_crc16_xmodem(data_section))]
    /\ UNCHANGED beside_wire

intact == wire.origin \in {"zybl_frame", "peer"} /\ wire.damage[1] = "none"

\* bit pos of the bytes on the link (bit 0 is the low bit of byte 0) flips
FlipBit(pos) ==
    /\ intact
    /\ Len(wire.raw) <= 12 + MaxPayload \/ pos \in LongFlips
    /\ pos \in 0..(8 * Len(wire.raw) - 1)
    /\ wire' = [wire EXCEPT
                 !.raw = [wire.raw EXCEPT ![pos \div 8 + 1] =
                              bitxor(wire.raw[pos \div 8 + 1], 2 ^ (pos % 8))],
                 !.damage = <<"bit", pos>>, !.parsed = Unparsed]
    /\ UNCHANGED beside_wire

\* only the first n bytes arrive
Cut(n) ==
    /\ intact
    /\ n \in 0..(Len(wire.raw) - 1)
    /\ wire' = [wire EXCEPT !.raw = SubSeq(wire.raw, 1, n),
                            !.damage = <<"cut", n>>, !.parsed = Unparsed]
    /\ UNCHANGED beside_wire

\* a byte follows the frame in the same notification
Extend(byte) ==
    /\ intact
    /\ Len(wire.raw) <= 12 + MaxPayload
    /\ wire' = [wire EXCEPT !.raw = Append(wire.raw, byte),
                            !.damage = <<"extend", byte>>, !.parsed = Unparsed]
    /\ UNCHANGED beside_wire

\* parsed = zybl_parse(value)
ParseFrame ==
    /\ wire.origin \in {"zybl_frame", "peer"}
    /\ wire.parsed = Unparsed
    /\ wire' = [wire EXCEPT !.parsed = zybl_parse(wire.raw)]
    /\ UNCHANGED beside_wire

\* byte strings handed to both checksum routines: every single byte, pairs
\* of extreme bytes, the check string "123456789" and the longest data section
ChecksumBytes == {0, 1, 128, 165, 255}
ChecksumInputs ==
    {<<>>, <<49, 50, 51, 52, 53, 54, 55, 56, 57>>, LongPayload}
    \cup {<<a>> : a \in 0..255}
    \cup {<<a, b>> : a \in ChecksumBytes, b \in ChecksumBytes}

\* CrcCheck.calc_checksum(data) and _crc16_xmodem(data) on the same bytes
Checksum(data) ==
    /\ wire.origin = "none"
    /\ wire' = [NoWire EXCEPT !.origin = "checksum", !.raw = data,
                !.sums = <<calc_checksum(data), _crc16_xmodem(data)>>]
    /\ UNCHANGED beside_wire

NextCodec ==
    \/ \E data \in ChecksumInputs : Checksum(data)
    \/ \E cid \in Cids, payload \in FramePayloads, seq \in Seqs :
           BuildFrame(cid, payload, seq)
    \/ \E data_section \in PeerSections : PeerFrame(data_section)
    \/ \E pos \in 0..(8 * (12 + MaxPayload) - 1) \cup LongFlips : FlipBit(pos)
    \/ \E n \in 0..(12 + MAX_PAYLOAD) : Cut(n)
    \/ \E byte \in TrailingBytes : Extend(byte)
    \/ ParseFrame

SpecCodec == Init /\ [][NextCodec]_vars

(***************************************************************************)
(* The GattController: scanning, connecting, resolving, writing.           *)
(***************************************************************************)
MaxDiscovered == 1
MaxSeq == 3
\* the sequence number a long run of commands stops at, two below the
\* largest number a frame can carry
HighSeq == 65535 - 1
Targets == {<<"index", i>> : i \in (0 - 1)..MaxDiscovered} \cup {<<"mac", 0>>}
DBusOutcomes == {"ok", "exception"}
\* a PropertiesChanged signal: each property is absent, true or false
Changed == [Connected : {"absent", "true", "false"},
            ServicesResolved : {"absent", "true", "false"}]
Interfaces == {"org.bluez.Device1", "org.bluez.Battery1"}
\* what BlueZ answers while the characteristics are resolved
Resolutions == [objects : DBusOutcomes, write_found : BOOLEAN,
                read_found : BOOLEAN, notify : DBusOutcomes]
GattPayloads == {<<>>, <<50>>}
RawWrites == {<<1, 2>>}

\* what the GattController has no part in
beside_gatt == <<mesh_vars, wire, zmesh>>

\* the record of the handler that ran: its name and the values _state took
Ran(g, op, trail) ==
    [g EXCEPT !.op = op, !.trail = trail, !.raised = FALSE, !.wrote = FALSE]

\* GattController.scan: the list is cleared and found lights are added
scan(found) ==
    /\ gatt' = Ran([gatt EXCEPT !.discovered = found], "scan", <<gatt.state>>)
    /\ UNCHANGED beside_gatt

\* connect with an index outside the list
invalid_index(g, target) ==
    target[1] = "index" /\ (target[2] < 0 \/ target[2] >= g.discovered)

\* connect without the test of the state
connect_from_any_state(target, dbus) ==
    /\ gatt' =
         IF invalid_index(gatt, target)
         THEN Ran(gatt, "connect", <<gatt.state>>)
         ELSE LET watching == [gatt EXCEPT !.device_path = DevicePath(target),
                                           !.state = STATE_CONNECTING,
                                           !.props_signal = TRUE]
              IN  IF dbus = "ok"
                  THEN Ran([watching EXCEPT !.connect_pending = TRUE], "connect",
                           <<gatt.state, STATE_CONNECTING>>)
                  ELSE Ran(_cleanup(watching), "connect",
                           <<gatt.state, STATE_CONNECTING, STATE_DISCONNECTED>>)
    /\ UNCHANGED beside_gatt

\* GattController.connect
connect(target, dbus) ==
    /\ gatt' =
         IF gatt.state # STATE_DISCONNECTED \/ invalid_index(gatt, target)
         THEN Ran(gatt, "connect", <<gatt.state>>)
         ELSE LET watching == [gatt EXCEPT !.device_path = DevicePath(target),
                                           !.state = STATE_CONNECTING,
                                           !.props_signal = TRUE]
              IN  IF dbus = "ok"
                  THEN Ran([watching EXCEPT !.connect_pending = TRUE], "connect",
                           <<gatt.state, STATE_CONNECTING>>)
                  ELSE Ran(_cleanup(watching), "connect",
                           <<gatt.state, STATE_CONNECTING, STATE_DISCONNECTED>>)
    /\ UNCHANGED beside_gatt

\* reply_handler=lambda: None
connect_reply ==
    /\ gatt.connect_pending
    /\ gatt' = Ran([gatt EXCEPT !.connect_pending = FALSE], "connect_reply",
                   <<gatt.state>>)
    /\ UNCHANGED beside_gatt

\* GattController._on_connect_error
_on_connect_error ==
    /\ gatt.connect_pending
    /\ gatt' = Ran(_cleanup([gatt EXCEPT !.connect_pending = FALSE]),
                   "_on_connect_error", <<gatt.state, STATE_DISCONNECTED>>)
    /\ UNCHANGED beside_gatt

\* GattController.disconnect, as the fields it leaves
disconnected(g) == IF g.state = STATE_DISCONNECTED THEN g ELSE _cleanup(g)

\* the values _state takes in disconnect
disconnect_trail(g) ==
    IF g.state = STATE_DISCONNECTED THEN <<>> ELSE <<STATE_DISCONNECTED>>

disconnect ==
    /\ gatt' = Ran(disconnected(gatt), "disconnect",
                   <<gatt.state>> \o disconnect_trail(gatt))
    /\ UNCHANGED beside_gatt

\* GattController._start_notify: the receiver is registered, StartNotify may
\* fail, and the controller is READY with sequence 0 either way
_start_notify(g, notify) ==
    [g EXCEPT !.notify_signal = TRUE, !.state = STATE_READY, !.seq = 0,
              !.writes = 0]

\* both characteristics were found
found_both(env) == env.write_found /\ env.read_found

\* GattController._resolve_characteristics
_resolve_characteristics(g, env) ==
    IF env.objects = "exception" THEN disconnected(g)
    ELSE LET looked == [g EXCEPT
                 !.write_char_path = IF env.write_found THEN WriteCharPath ELSE NoPath,
                 !.read_char_path = IF env.read_found THEN ReadCharPath ELSE NoPath]
         IN  IF found_both(env) THEN _start_notify(looked, env.notify)
             ELSE disconnected(looked)

\* the Connected part of _on_properties_changed
after_connected(g, changed) ==
    IF changed.Connected = "true" /\ g.state = STATE_CONNECTING
        THEN [g EXCEPT !.state = STATE_RESOLVING]
    ELSE IF changed.Connected = "false" THEN _cleanup(g)
    ELSE g

\* the values _state takes in the Connected part
connected_trail(g, changed) ==
    IF changed.Connected = "true" /\ g.state = STATE_CONNECTING
        THEN <<STATE_RESOLVING>>
    ELSE IF changed.Connected = "false" THEN <<STATE_DISCONNECTED>>
    ELSE <<>>

\* the ServicesResolved part runs _resolve_characteristics
resolves(g, changed) ==
    changed.ServicesResolved = "true" /\ g.state = STATE_RESOLVING

\* GattController._on_properties_changed, called while its receiver is
\* registered
_on_properties_changed(interface, changed, env) ==
    /\ gatt.props_signal
    /\ gatt' =
         IF interface # "org.bluez.Device1"
         THEN Ran(gatt, "_on_properties_changed", <<gatt.state>>)
         ELSE LET g1 == after_connected(gatt, changed)
                  g2 == IF resolves(g1, changed)
                        THEN _resolve_characteristics(g1, env) ELSE g1
              IN  Ran(g2, "_on_properties_changed",
                      <<gatt.state>> \o connected_trail(gatt, changed)
                      \o (IF resolves(g1, changed) THEN <<g2.state>> ELSE <<>>))
    /\ UNCHANGED beside_gatt

\* write_raw refusing only when disconnected
written_raw_unless_disconnected(g, data, dbus) ==
    IF g.state = STATE_DISCONNECTED \/ dbus = "exception" THEN g
    ELSE [g EXCEPT !.wrote = TRUE, !.written = data,
                   !.writes = IF g.writes < 2 THEN g.writes + 1 ELSE 2]

\* GattController.write_raw, as the fields it leaves
written_raw(g, data, dbus) ==
    IF g.state # STATE_READY \/ dbus = "exception" THEN g
    ELSE [g EXCEPT !.wrote = TRUE, !.written = data,
                   !.writes = IF g.writes < 2 THEN g.writes + 1 ELSE 2]

write_raw(data, dbus) ==
    /\ gatt' = written_raw(Ran(gatt, "write_raw", <<gatt.state>>), data, dbus)
    /\ UNCHANGED beside_gatt

\* GattController.send_command; the sequence numbers are followed up to
\* MaxSeq and again from HighSeq on
send_command(cid, payload, dbus) ==
    /\ gatt.seq < MaxSeq \/ (gatt.seq >= HighSeq /\ gatt.seq < HighSeq + MaxSeq)
    /\ LET counted == [Ran(gatt, "send_command", <<gatt.state>>)
                          EXCEPT !.seq = gatt.seq + 1]
       IN  gatt' = IF zybl_frame_raises(cid, payload, counted.seq)
                   THEN [counted EXCEPT !.raised = TRUE]
                   ELSE written_raw(counted, zybl_frame(cid, payload, counted.seq), dbus)
    /\ UNCHANGED beside_gatt

\* send_command called over and over while READY, every write succeeding,
\* until the sequence number is HighSeq
send_command_run(cid, payload) ==
    /\ gatt.state = STATE_READY
    /\ gatt.seq < MaxSeq
    /\ ~zybl_frame_raises(cid, payload, HighSeq)
    /\ gatt' = [Ran(gatt, "send_command_run", <<gatt.state>>)
                   EXCEPT !.seq = HighSeq, !.wrote = TRUE, !.writes = 2,
                          !.written = zybl_frame(cid, payload, HighSeq)]
    /\ UNCHANGED beside_gatt

NextGatt ==
    \/ \E found \in 0..MaxDiscovered : scan(found)
    \/ \E target \in Targets, dbus \in DBusOutcomes : connect(target, dbus)
    \/ connect_reply
    \/ _on_connect_error
    \/ \E interface \in Interfaces, changed \in Changed, env \in Resolutions :
           _on_properties_changed(interface, changed, env)
    \/ disconnect
    \/ \E data \in RawWrites, dbus \in DBusOutcomes : write_raw(data, dbus)
    \/ \E payload \in GattPayloads, dbus \in DBusOutcomes :
           send_command(CID_CCT, payload, dbus)
    \/ send_command_run(CID_CCT, <<>>)

SpecGatt == Init /\ [][NextGatt]_vars

(***************************************************************************)
(* The ZyvegaMesh: provisioning, removal and the generic commands.         *)
(***************************************************************************)
MeshUuids == {"AA", "BB"}
Percents == {0, 50, 100}
\* _ensure_network and the D-Bus call that follows succeed, or raise
Outcomes == {"ok", "raises"}

\* what the ZyvegaMesh has no part in
beside_zmesh == <<mesh_vars, wire, gatt>>

\* ZyvegaMesh.provision(uuid): AddNode, then the node is stored at the
\* address picked before the call
provision(uuid, outcome) ==
    /\ zmesh' =
         IF outcome = "raises"
         THEN [zmesh EXCEPT !.op = <<"provision", uuid>>, !.sent = <<>>,
                            !.given = None]
         ELSE LET unicast == provision_address(zmesh.nodes)
              IN  [zmesh EXCEPT !.op = <<"provision", uuid>>, !.sent = <<>>,
                                !.given = unicast,
                                !.nodes = nodes_set(zmesh.nodes, uuid, unicast)]
    /\ UNCHANGED beside_zmesh

\* ZyvegaMesh.remove_node(unicast): Config Node Reset, then the first node
\* with the address is deleted
remove_node(unicast, outcome) ==
    /\ zmesh' =
         IF outcome = "raises"
         THEN [zmesh EXCEPT !.op = <<"remove_node", unicast>>, !.sent = <<>>,
                            !.given = None]
         ELSE [zmesh EXCEPT !.op = <<"remove_node", unicast>>,
                            !.sent = <<unicast, <<128, 73>>>>, !.given = None,
                            !.nodes = nodes_del(zmesh.nodes, unicast),
                            !.removed = IF address_index(zmesh.nodes, unicast) # 0
                                        THEN zmesh.removed \cup {unicast}
                                        ELSE zmesh.removed]
    /\ UNCHANGED beside_zmesh

\* _send_mesh_message(dest, data) at the end of a command named op
mesh_sent(op, dest, data, outcome) ==
    IF dest = None \/ outcome = "raises"
    THEN [zmesh EXCEPT !.op = op, !.sent = <<>>, !.given = None]
    ELSE [zmesh EXCEPT !.op = op, !.sent = <<dest, data>>, !.given = None,
                       !.last_to = [d \in MeshDests |->
                                      IF d = dest THEN data ELSE zmesh.last_to[d]]]

\* ZyvegaMesh.set_power(unicast, on)
set_power(unicast, on, outcome) ==
    /\ zmesh' = mesh_sent(<<"set_power", unicast>>,
                          _get_target_unicast(zmesh.nodes, unicast),
                          onoff_data(on), outcome)
    /\ UNCHANGED beside_zmesh

\* ZyvegaMesh.set_brightness(unicast, percent)
set_brightness(unicast, percent, outcome) ==
    /\ zmesh' = mesh_sent(<<"set_brightness", unicast>>,
                          _get_target_unicast(zmesh.nodes, unicast),
                          level_data(percent), outcome)
    /\ UNCHANGED beside_zmesh

NextZyvegaMesh ==
    \/ \E uuid \in MeshUuids, outcome \in Outcomes : provision(uuid, outcome)
    \/ \E unicast \in MeshDests, outcome \in Outcomes : remove_node(unicast, outcome)
    \/ \E unicast \in MeshDests \cup {None}, on \in BOOLEAN, outcome \in Outcomes :
           set_power(unicast, on, outcome)
    \/ \E unicast \in MeshDests \cup {None}, percent \in Percents, outcome \in Outcomes :
           set_brightness(unicast, percent, outcome)

SpecZyvegaMesh == Init /\ [][NextZyvegaMesh]_vars

(***************************************************************************)
(* What the properties read off a state.                                   *)
(***************************************************************************)
last_op == last[1]
last_args == last[2]
\* opcode and parameters of the message the last handler was given
last_opcode == _parse_opcode(last_args[2])[1]
last_params == _parse_opcode(last_args[2])[2]
is_dev_key == last_op = "_on_dev_key_message_received"

calls(requests, name) == {i \in 1..Len(requests) : requests[i][1] = name}

\* a fresh controller with nothing on disk
fresh ==
    /\ token = None
    /\ nodes = <<>>
    /\ scan_results = <<>>
    /\ next_unicast = FIRST_UNICAST
    /\ prov_uuid = NoBytes
    /\ token_file = NoFile
    /\ nodes_file = NoFile

\* the daemon runs the add-node session the controller is waiting for
in_flight == daemon_prov.phase # "none" /\ prov_uuid = daemon_prov.uuid

ranges_overlap(a, b) ==
    a.unicast < b.unicast + b.count /\ b.unicast < a.unicast + a.count

(***************************************************************************)
(* Provisioning claims, under SpecProvisioning.                            *)
(***************************************************************************)
\* C1: while a provisioning attempt is in flight, a second provision_device
\* call issues no AddNode request and leaves the in-flight UUID as it is.
C1_SecondProvisionRejected ==
    [][(in_flight /\ last_op' = "provision_device")
        => (calls(sent', "AddNode") = {} /\ prov_uuid' = prov_uuid)]_vars

\* C2: no two nodes of the registry have overlapping address ranges
\* [unicast, unicast + count).
C2_NoOverlap ==
    \A i, j \in 1..Len(nodes) :
        i # j => ~ranges_overlap(nodes[i].info, nodes[j].info)

\* C3: the next unicast address is at least 2 and at least unicast + count of
\* every node, and a completion callback never lowers it.
C3_NextPastEveryNode ==
    /\ [](/\ next_unicast >= FIRST_UNICAST
          /\ \A i \in 1..Len(nodes) :
                next_unicast >= nodes[i].info.unicast + nodes[i].info.count)
    /\ [][last_op' = "_on_add_node_complete" => next_unicast' >= next_unicast]_vars

\* C7: after reset_network the controller is a fresh controller with nothing
\* persisted: no token, no nodes, no scan results, next unicast address 2, no
\* in-flight provisioning UUID, no token file and no node table.
C7_ResetIsFresh == last_op = "reset_network" => fresh

\* C10: the address-request callback returns the current next unicast address
\* and changes neither the registry, the persisted node table nor the next
\* unicast address; only the completion callback adds a node record.
C10_AddressRequestChangesNothing ==
    [][/\ last_op' = "_on_request_prov_data"
          => /\ daemon_prov'.unicast = next_unicast
             /\ nodes' = nodes
             /\ nodes_file' = nodes_file
             /\ next_unicast' = next_unicast
       /\ (\E i \in 1..Len(nodes') : ~has_key(nodes, nodes'[i].key))
          => last_op' = "_on_add_node_complete"]_vars

\* an address was offered while the registry holds a node, and nothing claims it
C10_Witness ==
    /\ last_op = "_on_request_prov_data"
    /\ daemon_prov.phase = "offered"
    /\ nodes # <<>>
    /\ daemon_prov.unicast = next_unicast
    /\ ~has_key(nodes, hex(daemon_prov.uuid))

(***************************************************************************)
(* Configuration, reset and persistence claims, under Spec.                *)
(***************************************************************************)
\* the node stored under key in table d
node_of(d, key) == d[CHOOSE i \in 1..Len(d) : d[i].key = key].info

\* key's node is configured in d
configured_in(d, key) == has_key(d, key) /\ node_of(d, key).configured

\* table d without the entries at unicast address source
others(d, source) == SelectSeq(d, LAMBDA e : e.info.unicast # source)

\* C4: a node's configured flag becomes true only on a bind-status response
\* with status 0 from the node, after a composition-data response that
\* yielded a vendor model, an app-key-status response with status 0 and a
\* bind request sent to the node, in this order.
C4_ConfiguredOnlyAfterAllSteps ==
    [][\A k \in NodeKeys :
        (configured_in(nodes', k) /\ ~configured_in(nodes, k))
        => /\ stage[k] = 3
           /\ is_dev_key'
           /\ last_opcode' = OP_MODEL_APP_STATUS
           /\ status_of(last_params') = 0
           /\ last_args'[1] = node_of(nodes, k).unicast]_vars

\* C5: when an app-key-status response with a non-zero status arrives from a
\* node whose composition data yielded a vendor model, no request is sent
\* and the node table stays as it is, the configured flag with it.
C5_AppKeyFailureHalts ==
    [][(/\ is_dev_key'
        /\ last_opcode' = OP_APPKEY_STATUS
        /\ status_of(last_params') # 0
        /\ first_bindable(last_args'[1]) # 0)
        => /\ sent' = <<>>
           /\ nodes' = nodes
           /\ nodes_file' = nodes_file]_vars

\* an app-key failure was handled for an attached controller's node that has
\* its vendor model and is not configured
C5_Witness ==
    /\ is_dev_key
    /\ last_opcode = OP_APPKEY_STATUS
    /\ status_of(last_params) = 1
    /\ node_iface
    /\ first_bindable(last_args[1]) # 0
    /\ ~nodes[first_bindable(last_args[1])].info.configured

\* C6: handling a configuration response from source address s changes only
\* the record of the node at s and sends requests only to s; with no node at
\* s it changes nothing and sends nothing.
C6_OnlyTheSourceNode ==
    [][is_dev_key'
        => LET s == last_args'[1] IN
           /\ others(nodes', s) = others(nodes, s)
           /\ \A i \in 1..Len(sent') :
                sent'[i][1] \in {"DevKeySend", "AddAppKey"} => sent'[i][2] = s
           /\ first_at(nodes, s) = 0
              => /\ nodes' = nodes
                 /\ nodes_file' = nodes_file
                 /\ sent' = <<>>]_vars

\* C8: the callback or response handled right after a reset_network that
\* left a network belongs to that network and is ignored: no error, no node
\* added or changed, no request sent, no file written.
C8_LateCallbacksIgnored ==
    [][(/\ last_op = "reset_network"
        /\ calls(sent, "Leave") # {}
        /\ last_op' \in {"_on_add_node_complete", "_on_add_node_failed",
                         "_on_dev_key_message_received"})
        => /\ ~raised'
           /\ nodes' = nodes
           /\ sent' = <<>>
           /\ disk' = disk]_vars

\* C9: the persisted node table is the in-memory registry, so a restart
\* reloads the nodes with their vendor model ids and configured flags.
C9_NodesPersisted == loaded_nodes = nodes

\* a node's bind status was just stored, and the file holds it
C9_Witness ==
    /\ is_dev_key
    /\ last_opcode = OP_MODEL_APP_STATUS
    /\ nodes_file.exists
    /\ \E i \in 1..Len(nodes) :
         /\ nodes[i].info.configured
         /\ nodes[i].info.company_id # None
         /\ nodes[i].info.unicast = last_args[1]

(***************************************************************************)
(* The provisioning callbacks.                                             *)
(***************************************************************************)
\* C11: after the completion callback (uuid, unicast, count) the registry
\* holds under uuid a record with that unicast and count, configured false
\* and no vendor model ids, the node file holds the registry, and the
\* in-flight provisioning UUID is cleared.
C11_CompletionRecorded ==
    last_op = "_on_add_node_complete"
    => LET k == hex(last_args[1]) IN
       /\ has_key(nodes, k)
       /\ node_of(nodes, k).unicast = last_args[2]
       /\ node_of(nodes, k).count = last_args[3]
       /\ node_of(nodes, k).configured = FALSE
       /\ node_of(nodes, k).company_id = None
       /\ node_of(nodes, k).vendor_model_id = None
       /\ nodes_file.exists
       /\ json_loads(nodes_file.text) = nodes
       /\ prov_uuid = NoBytes

\* a device with two elements was added to a registry that holds another node
C11_Witness ==
    /\ last_op = "_on_add_node_complete"
    /\ last_args[3] = 2
    /\ Len(nodes) = 2
    /\ nodes[2].key = hex(last_args[1])

\* C12: the failure callback leaves the registry, the node file and the next
\* unicast address as they are and clears the in-flight provisioning UUID;
\* a provision_device call with a valid index right after it issues AddNode
\* and sets the in-flight UUID.
C12_FailureDiscardsAndFrees ==
    [][/\ last_op' = "_on_add_node_failed"
          => /\ nodes' = nodes
             /\ nodes_file' = nodes_file
             /\ next_unicast' = next_unicast
             /\ prov_uuid' = NoBytes
       /\ (/\ last_op = "_on_add_node_failed"
           /\ last_op' = "provision_device"
           /\ last_args'[1] >= 0
           /\ last_args'[1] < Len(scan_results))
          => /\ calls(sent', "AddNode") # {}
             /\ prov_uuid' = Slice(scan_results[last_args'[1] + 1].data, 0, UUID_LEN)]_vars

\* an attempt failed on an attached controller that has a node and scan
\* results to provision from
C12_Witness ==
    /\ last_op = "_on_add_node_failed"
    /\ mgmt_iface
    /\ nodes # <<>>
    /\ scan_results # <<>>
    /\ prov_uuid = NoBytes

(***************************************************************************)
(* The configuration steps, under Spec.                                    *)
(***************************************************************************)
\* C13: when provisioning of a node completes, the completion callback sends
\* a composition-data-get for page 0 to the new node's unicast address.
C13_ConfigurationStartsItself ==
    last_op = "_on_add_node_complete"
    => \E i \in 1..Len(sent) : sent[i] = <<"DevKeySend", last_args[2], CompositionGet>>

(***************************************************************************)
(* Progress of the configuration, under SpecAnswered.                      *)
(***************************************************************************)
\* configure_device has just sent the composition get to key's node
configuration_started(key) ==
    /\ last_op = "configure_device"
    /\ sent # <<>>
    /\ first_at(nodes, last_args[1]) # 0
    /\ nodes[first_at(nodes, last_args[1])].key = key

\* the daemon refused to create the app key: _add_app_key returned before
\* AddAppKey
app_key_refused ==
    /\ is_dev_key
    /\ calls(sent, "CreateAppKey") # {}
    /\ calls(sent, "AddAppKey") = {}

C15_ConfiguredIsTerminal ==
    [][\A i \in 1..Len(nodes) :
        (/\ nodes[i].info.configured
         /\ is_dev_key'
         /\ last_args'[1] = nodes[i].info.unicast
         /\ last_opcode' \in {OP_COMPOSITION_DATA_STATUS, OP_APPKEY_STATUS,
                              OP_MODEL_APP_STATUS})
        => /\ Len(nodes') = Len(nodes)
           /\ nodes'[i] = nodes[i]
           /\ sent' = <<>>]_vars

\* C16: every configured node has a company id and a vendor model id.
C16_ConfiguredHasVendorModel ==
    \A i \in 1..Len(nodes) :
        nodes[i].info.configured
        => /\ nodes[i].info.company_id # None
           /\ nodes[i].info.vendor_model_id # None

(***************************************************************************)
(* The responses of one node, under SpecResponses.                         *)
(***************************************************************************)
\* index of the node the last message came from, 0 when there is none
source_node == first_at(nodes, last_args[1])

RECURSIVE first_vendor(_)
\* the first vendor model in element order, <<>> when no element has one
first_vendor(elements) ==
    IF elements = <<>> THEN <<>>
    ELSE IF Head(elements).vendor # <<>> THEN Head(elements).vendor[1]
    ELSE first_vendor(Tail(elements))

\* C17: a bind-status response with a non-zero status, or without a status
\* byte, leaves the node table (the configured flag with it) and the node
\* file as they are and sends no request.
C17_BindFailureHalts ==
    [][(/\ is_dev_key'
        /\ last_opcode' = OP_MODEL_APP_STATUS
        /\ (Len(last_params') = 0 \/ At(last_params', 0) # 0))
        => /\ nodes' = nodes
           /\ nodes_file' = nodes_file
           /\ sent' = <<>>]_vars

\* a bind status without a status byte came from a node whose bind request
\* was sent, and the node is not configured
C17_Witness ==
    /\ is_dev_key
    /\ last_opcode = OP_MODEL_APP_STATUS
    /\ last_params = <<>>
    /\ source_node # 0
    /\ stage[nodes[source_node].key] = 3
    /\ ~nodes[source_node].info.configured

\* C18: a composition-data response that lists no vendor model in any
\* element leaves the node table and the node file as they are, and neither
\* CreateAppKey nor AddAppKey is requested.
C18_NoVendorModelHalts ==
    [][(/\ is_dev_key'
        /\ last_opcode' = OP_COMPOSITION_DATA_STATUS
        /\ \E c \in Compositions :
              last_params' = page0(c) /\ first_vendor(c) = <<>>)
        => /\ nodes' = nodes
           /\ nodes_file' = nodes_file
           /\ calls(sent', "CreateAppKey") = {}
           /\ calls(sent', "AddAppKey") = {}]_vars

\* composition data with SIG models only came from a node that is neither
\* configured nor has vendor model ids
C18_Witness ==
    /\ is_dev_key
    /\ last_opcode = OP_COMPOSITION_DATA_STATUS
    /\ last_params = page0(SigOnlyElements)
    /\ source_node # 0
    /\ nodes[source_node].info.company_id = None
    /\ ~nodes[source_node].info.configured

\* the last message was composition page 0 of c, from a node's address
composition_from_node(c) ==
    /\ is_dev_key
    /\ last_opcode = OP_COMPOSITION_DATA_STATUS
    /\ last_params = page0(c)
    /\ first_vendor(c) # <<>>
    /\ source_node # 0

\* the node the last message came from holds the vendor model pair, in the
\* registry and in the node file
stored_at_source(pair) ==
    /\ nodes[source_node].info.company_id = pair[1]
    /\ nodes[source_node].info.vendor_model_id = pair[2]
    /\ nodes_file.exists
    /\ json_loads(nodes_file.text) = nodes

example_from_node ==
    /\ is_dev_key
    /\ last_args[2] = <<2, 0, 241, 5, 1, 0, 1, 0, 0, 128, 0, 0,
                        0, 0, 0, 1, 1, 0, 5, 9, 128, 3>>
    /\ source_node # 0

\* C20: the example bytes 00 F1 05 01 00 01 00 00 80 00 00, 00 00 00 01 01
\* 00 05 09 80 03 yield the vendor model 0x0905:0x0380 as the node's control
\* target.
C20_ExampleYields0905_0380 ==
    example_from_node
    => /\ nodes[source_node].info.company_id = 2309
       /\ nodes[source_node].info.vendor_model_id = 896

\* C20, amended: the example bytes yield the vendor model 0x0001:0x0905: the
\* element header 00 00 00 01 is followed by the vendor model 01 00 05 09,
\* and 80 03 is left over.
C20_ExampleYields0001_0905 ==
    example_from_node
    => /\ nodes[source_node].info.company_id = 1
       /\ nodes[source_node].info.vendor_model_id = 2309

\* the example was handled for a node on an attached controller
C20_Witness ==
    /\ example_from_node
    /\ node_iface
    /\ nodes[source_node].info.company_id # None
    /\ calls(sent, "CreateAppKey") # {}

\* C21: composition data from a node in which an element declares more
\* models than the data holds is rejected as a whole: the node table and the node file stay
\* as they are and neither CreateAppKey nor AddAppKey is requested, also
\* when a complete vendor model precedes the cut.
C21_TruncatedElementRejected ==
    [][(/\ is_dev_key'
        /\ last_opcode' = OP_COMPOSITION_DATA_STATUS
        /\ last_params' = CompTruncated
        /\ first_at(nodes, last_args'[1]) # 0)
        => /\ nodes' = nodes
           /\ nodes_file' = nodes_file
           /\ calls(sent', "CreateAppKey") = {}
           /\ calls(sent', "AddAppKey") = {}]_vars

(***************************************************************************)
(* Scanning, under SpecScanning.                                           *)
(***************************************************************************)
\* the device UUID of a scan result: the first 16 bytes of its data
uuid_of(data) == Slice(data, 0, UUID_LEN)

\* index of the scan result with data's device UUID, 0 when there is none
uuid_index(results, data) ==
    IF \E i \in 1..Len(results) : uuid_of(results[i].data) = uuid_of(data)
    THEN CHOOSE i \in 1..Len(results) : uuid_of(results[i].data) = uuid_of(data)
    ELSE 0

\* C22: no two scan results have the same 16-byte device UUID; a scan-result
\* event for a UUID already present puts the new RSSI into that entry, at
\* its index, and adds no entry, whatever bytes follow the UUID.
C22_OneResultPerUuid ==
    /\ [](\A i, j \in 1..Len(scan_results) :
            i # j => uuid_of(scan_results[i].data) # uuid_of(scan_results[j].data))
    /\ [][(last_op' = "_on_scan_result" /\ uuid_index(scan_results, last_args'[2]) # 0)
          => /\ Len(scan_results') = Len(scan_results)
             /\ scan_results'[uuid_index(scan_results, last_args'[2])].rssi
                    = last_args'[1]]_vars

\* C23: a start_scan that issues the scan request leaves the scan-result
\* set empty, so every index provision_device accepts afterwards is of a
\* result reported after the call.
C23_ScanStartsEmpty ==
    (last_op = "start_scan" /\ calls(sent, "UnprovisionedScan") # {})
    => scan_results = <<>>

\* a scan was started after a device of an earlier scan had been picked
C23_Witness ==
    /\ last_op = "start_scan"
    /\ calls(sent, "UnprovisionedScan") # {}
    /\ prov_uuid # NoBytes
    /\ scan_results = <<>>

(***************************************************************************)
(* Index check and address allocation, under SpecProvisioning.             *)
(***************************************************************************)
\* C24: provision_device with an index below 0 or not below the number of
\* scan results issues no AddNode request and leaves the in-flight UUID,
\* the registry and the scan results as they are.
C24_InvalidIndexRejected ==
    [][(/\ last_op' = "provision_device"
        /\ (last_args'[1] < 0 \/ last_args'[1] >= Len(scan_results)))
        => /\ calls(sent', "AddNode") = {}
           /\ ~raised'
           /\ prov_uuid' = prov_uuid
           /\ nodes' = nodes
           /\ scan_results' = scan_results]_vars

\* index -1 was refused on an attached controller that has scan results
C24_Witness ==
    /\ last_op = "provision_device"
    /\ last_args[1] = -1
    /\ mgmt_iface
    /\ scan_results # <<>>
    /\ sent = <<>>

\* C25: a controller starts at next unicast address 2 or above, every
\* completion raises the address by at least the element count it reports,
\* and only a reset or a new run of the program lowers it; so after N
\* completions in one session the address is at least 2 + c1 + ... + cN.
C25_NextCoversEveryCount ==
    /\ [](last_op = "__init__" => next_unicast >= FIRST_UNICAST)
    /\ [][/\ (last_op' = "_on_add_node_complete"
               => next_unicast' >= next_unicast + last_args'[3])
           /\ (next_unicast' < next_unicast
               => last_op' \in {"reset_network", "__init__"})]_vars

\* two devices were provisioned in one session, the second with two
\* elements, and the next address is 2 plus the counts
C25_Witness ==
    /\ last_op = "_on_add_node_complete"
    /\ last_args[3] = 2
    /\ Len(nodes) = 2
    /\ next_unicast = FIRST_UNICAST + nodes[1].info.count + nodes[2].info.count
    /\ nodes[2].info.unicast = FIRST_UNICAST + nodes[1].info.count

\* C26: for every sequence number and command id in 0..65535 and every payload
\* of at most 249 bytes, zybl_frame builds a frame, and zybl_parse of that
\* frame returns exactly (seq, cid, payload).
C26_RoundTrip ==
    (/\ wire.origin \in {"zybl_frame", "raised"}
     /\ wire.seq \in 0..65535
     /\ wire.cid \in 0..65535
     /\ Len(wire.payload) <= 249)
    => /\ wire.origin = "zybl_frame"
       /\ (wire.damage[1] = "none" /\ wire.parsed # Unparsed)
          => wire.parsed = [exit |-> "frame",
                            value |-> <<wire.seq, wire.cid, wire.payload>>]

\* the longest payload with the largest sequence number came back whole
C26_Witness ==
    /\ wire.origin = "zybl_frame"
    /\ wire.damage[1] = "none"
    /\ Len(wire.payload) = 249
    /\ wire.seq = 65535
    /\ wire.cid = 4098
    /\ wire.parsed.exit = "frame"
    /\ wire.parsed.value = <<65535, 4098, wire.payload>>

\* the five conditions of an acceptable frame, read off the bytes
well_formed(raw) ==
    /\ Len(raw) >= 10
    /\ raw[1] = 36 /\ raw[2] = 60
    /\ Len(raw) >= raw[3] + 6
    /\ raw[4 + raw[3] + 1] + 256 * raw[4 + raw[3] + 2]
           = _crc16_xmodem(SubSeq(raw, 5, 4 + raw[3]))
    /\ raw[3] >= 6

Rejections == {"too short", "bad header", "truncated", "crc mismatch", "malformed"}

\* C27: zybl_parse returns a frame exactly when the input has at least 10
\* bytes, starts with 0x24 0x3C, has at least declared length + 6 bytes,
\* carries the little-endian CRC of the declared data section behind it and
\* declares at least 6 bytes; every other input is rejected with None, never
\* with an exception, and the first 9 bytes of a frame are too short.
C27_FrameIffWellFormed ==
    wire.parsed # Unparsed
    => /\ (wire.parsed.exit = "frame") <=> well_formed(wire.raw)
       /\ wire.parsed.exit # "frame"
          => wire.parsed.exit \in Rejections /\ wire.parsed.value = <<>>
       /\ wire.damage = <<"cut", 9>> => wire.parsed.exit = "too short"

\* the first nine bytes of a built frame were rejected as too short
C27_Witness ==
    /\ wire.origin = "zybl_frame"
    /\ wire.damage = <<"cut", 9>>
    /\ Len(wire.raw) = 9
    /\ wire.parsed.exit = "too short"
    /\ wire.parsed.value = <<>>

\* bit pos lies in the data section of the frame built last: bytes 4 up to
\* the CRC field
in_data_section(pos) ==
    /\ pos >= 8 * 4
    /\ pos < 8 * (Len(zybl_frame(wire.cid, wire.payload, wire.seq)) - 2)

\* C28: when any single bit of the data section of a frame built by
\* zybl_frame is flipped, zybl_parse rejects the frame at the CRC comparison.
C28_BitFlipCaught ==
    (/\ wire.origin = "zybl_frame"
     /\ wire.damage[1] = "bit"
     /\ in_data_section(wire.damage[2])
     /\ wire.parsed # Unparsed)
    => wire.parsed = [exit |-> "crc mismatch", value |-> <<>>]

\* the top bit of the second payload byte was flipped and the CRC caught it
C28_Witness ==
    /\ wire.origin = "zybl_frame"
    /\ Len(wire.payload) = 2
    /\ wire.damage = <<"bit", 8 * 11 + 7>>
    /\ wire.raw # zybl_frame(wire.cid, wire.payload, wire.seq)
    /\ wire.parsed.exit = "crc mismatch"

\* bit i (0 the first on the wire) of a byte string sent high bit first
message_bit(data, i) == (data[i \div 8 + 1] \div 2 ^ (7 - (i % 8))) % 2

RECURSIVE xmodem_register(_, _, _, _)
\* CRC-16/XMODEM by its definition: the 16-bit register after feeding the
\* bits from..to of data, one at a time, into the division by
\* x^16 + x^12 + x^5 + 1
xmodem_register(data, from, to, reg) ==
    IF from > to THEN reg
    ELSE IF from = to
        THEN IF ((reg \div 32768) + message_bit(data, from)) % 2 = 1
             THEN bitxor((reg * 2) % 65536, 4129)
             ELSE (reg * 2) % 65536
    ELSE LET mid == (from + to) \div 2
             half == xmodem_register(data, from, mid, reg)
         IN  IF half \in 0..65535 THEN xmodem_register(data, mid + 1, to, half) ELSE half

crc16_xmodem_of(data) == xmodem_register(data, 0, 8 * Len(data) - 1, 0)

\* C29: every frame built by zybl_frame is 0x24 0x3C, a length byte of
\* 6 + len(payload), 0x00, then 0x0100, seq and cid as little-endian u16, the
\* payload, and the little-endian CRC-16/XMODEM of bytes [4, 10 + len(payload));
\* it has 12 + len(payload) bytes.
C29_FrameLayout ==
    (wire.origin = "zybl_frame" /\ wire.damage[1] = "none")
    => LET n == Len(wire.payload)
           crc == crc16_xmodem_of(SubSeq(wire.raw, 5, 10 + n))
       IN  /\ Len(wire.raw) = 12 + n
           /\ SubSeq(wire.raw, 1, 4) = <<36, 60, 6 + n, 0>>
           /\ SubSeq(wire.raw, 5, 6) = <<0, 1>>
           /\ wire.raw[7] + 256 * wire.raw[8] = wire.seq
           /\ wire.raw[9] + 256 * wire.raw[10] = wire.cid
           /\ SubSeq(wire.raw, 11, 10 + n) = wire.payload
           /\ wire.raw[11 + n] = crc % 256
           /\ wire.raw[12 + n] = crc \div 256

\* the frame of command 0x1002 with sequence number 258 and two payload bytes
C29_Witness ==
    /\ wire.origin = "zybl_frame"
    /\ wire.damage[1] = "none"
    /\ wire.cid = 4098 /\ wire.seq = 258 /\ wire.payload = <<165, 0>>
    /\ SubSeq(wire.raw, 1, 12) = <<36, 60, 8, 0, 0, 1, 2, 1, 2, 16, 165, 0>>
    /\ Len(wire.raw) = 14

\* C30 as stated: the length field of every built frame is 4 + len(payload).
C30_LengthIsFourPlusPayload ==
    (wire.origin = "zybl_frame" /\ wire.damage[1] = "none")
    => wire.raw[3] = 4 + Len(wire.payload)

\* C30, amended: the length field of every built frame is 6 + len(payload),
\* the number of bytes between the reserved byte and the CRC, and no frame is
\* built when that number does not fit one byte.
C30_LengthIsSixPlusPayload ==
    /\ (wire.origin = "zybl_frame" /\ wire.damage[1] = "none")
       => /\ wire.raw[3] = 6 + Len(wire.payload)
          /\ wire.raw[3] = Len(wire.raw) - 6
          /\ wire.raw[3] <= 255
    /\ (wire.origin \in {"zybl_frame", "raised"} /\ 6 + Len(wire.payload) > 255)
       => wire.origin = "raised"

\* the longest frame: 249 payload bytes under a length byte of 255
C30_Witness ==
    /\ wire.origin = "zybl_frame"
    /\ wire.damage[1] = "none"
    /\ Len(wire.payload) = 249
    /\ wire.raw[3] = 255
    /\ Len(wire.raw) = 261

\* C31: on every byte sequence the table-driven calc_checksum and the bitwise
\* _crc16_xmodem return the same 16-bit value, which is the CRC-16/XMODEM
\* (polynomial 0x1021, initial value 0) of the bytes, and 0 on no bytes.
C31_ChecksumsAgree ==
    wire.origin = "checksum"
    => /\ wire.sums[1] = wire.sums[2]
       /\ wire.sums[1] \in 0..65535
       /\ wire.sums[1] = crc16_xmodem_of(wire.raw)
       /\ wire.raw = <<>> => wire.sums = <<0, 0>>

\* both routines gave 0x31C3 for "123456789"
C31_Witness ==
    /\ wire.origin = "checksum"
    /\ wire.raw = <<49, 50, 51, 52, 53, 54, 55, 56, 57>>
    /\ wire.sums = <<12739, 12739>>

\* the sequence number in the frame handed to WriteValue last
written_seq(g) == g.written[7] + 256 * g.written[8]

\* C32: on a connection the first frame written carries sequence 1, each
\* later frame the sequence after the one before, and after 65535 the counter
\* wraps and send_command goes on writing frames instead of failing.
C32_SequenceWraps ==
    [][(gatt'.op = "send_command" /\ gatt.state = STATE_READY
        /\ gatt'.seq # gatt.seq)
       => /\ ~gatt'.raised
          /\ gatt'.wrote
             => IF gatt.seq < 65535 THEN written_seq(gatt') = gatt.seq + 1
                ELSE written_seq(gatt') \in {0, 1}]_vars

\* C38: the write characteristic is written only while the state is READY:
\* write_raw and send_command write nothing in any other state.
C38_WritesOnlyWhenReady ==
    [][/\ gatt'.wrote => gatt.state = STATE_READY
       /\ (gatt'.op \in {"write_raw", "send_command"} /\ gatt.state # STATE_READY)
          => ~gatt'.wrote /\ gatt'.written = gatt.written /\ gatt'.writes = gatt.writes]_vars

\* send_command while the services were still being resolved wrote nothing
C38_Witness ==
    /\ gatt.op = "send_command"
    /\ gatt.state = STATE_RESOLVING
    /\ gatt.seq = 1
    /\ ~gatt.wrote
    /\ gatt.written = <<>>

\* C39: READY implies that the device path and both characteristic paths are
\* set; DISCONNECTED implies that all three are unset and that neither the
\* property nor the notification receiver is registered.
C39_PathsFollowState ==
    /\ gatt.state = STATE_READY
       => /\ gatt.device_path # NoPath
          /\ gatt.write_char_path # NoPath
          /\ gatt.read_char_path # NoPath
    /\ gatt.state = STATE_DISCONNECTED
       => /\ gatt.device_path = NoPath
          /\ gatt.write_char_path = NoPath
          /\ gatt.read_char_path = NoPath
          /\ ~gatt.props_signal
          /\ ~gatt.notify_signal

\* a READY controller was disconnected and holds nothing of the connection
C39_Witness ==
    /\ gatt.op = "disconnect"
    /\ gatt.trail = <<STATE_READY, STATE_DISCONNECTED>>
    /\ gatt.state = STATE_DISCONNECTED
    /\ gatt.device_path = NoPath
    /\ ~gatt.props_signal /\ ~gatt.notify_signal

\* the fields of the GattController proper, and the call it has pending
gatt_fields(g) ==
    <<g.state, g.seq, g.discovered, g.device_path, g.write_char_path,
      g.read_char_path, g.props_signal, g.notify_signal, g.connect_pending>>

\* a permitted change of _state from a to b in handler op, leaving fields g
permitted(a, b, op, g) ==
    \/ b = STATE_DISCONNECTED
    \/ a = STATE_DISCONNECTED /\ b = STATE_CONNECTING /\ op = "connect"
    \/ a = STATE_CONNECTING /\ b = STATE_RESOLVING /\ op = "_on_properties_changed"
    \/ /\ a = STATE_RESOLVING /\ b = STATE_READY /\ op = "_on_properties_changed"
       /\ g.write_char_path # NoPath /\ g.read_char_path # NoPath

\* C40: _state changes only from DISCONNECTED to CONNECTING (connect), from
\* CONNECTING to RESOLVING (Connected=true), from RESOLVING to READY (services
\* resolved, both characteristics found) or from any state to DISCONNECTED;
\* connect in a state other than DISCONNECTED changes nothing and starts no
\* second connection.
C40_StateEdges ==
    [][gatt' # gatt
       => /\ gatt'.trail[1] = gatt.state
          /\ gatt'.trail[Len(gatt'.trail)] = gatt'.state
          /\ Len(gatt'.trail) = 1 => gatt'.state = gatt.state
          /\ \A i \in 1..(Len(gatt'.trail) - 1) :
                permitted(gatt'.trail[i], gatt'.trail[i + 1], gatt'.op, gatt')
          /\ (gatt'.op = "connect" /\ gatt.state # STATE_DISCONNECTED)
             => gatt_fields(gatt') = gatt_fields(gatt)]_vars

\* connect was called on a READY controller, which stayed READY with no
\* Connect call pending
C40_Witness ==
    /\ gatt.op = "connect"
    /\ gatt.state = STATE_READY
    /\ gatt.trail = <<STATE_READY>>
    /\ ~gatt.connect_pending

\* C35: the controller holds a token only if a network was created: the
\* token is set only by loading the persisted token or by JoinComplete,
\* JoinComplete writes the token file in the handler that issues Attach, and
\* every Attach carries the held token.
C35_TokenFromNetwork ==
    [][/\ (token' # None /\ token' # token)
          => \/ /\ last_op' = "__init__"
                /\ token_file.exists /\ token' = int16(token_file.text)
             \/ last_op' = "_on_join_complete" /\ token' = last_args'[1]
       /\ (last_op' = "_on_join_complete" /\ net_call = "create")
          => /\ token_file' = File(format_hex(token', 16))
             /\ sent' = <<<<"Attach", token'>>>>
       /\ \A i \in 1..Len(sent') :
             sent'[i][1] = "Attach" => token' # None /\ sent'[i][2] = token']_vars

\* JoinComplete delivered the token, which is on disk and in the Attach call
C35_Witness ==
    /\ last_op = "_on_join_complete"
    /\ token = 4660
    /\ token_file = File(format_hex(4660, 16))
    /\ sent = <<<<"Attach", 4660>>>>

\* C36: a completion or failure callback whose UUID is not the in-flight
\* provisioning UUID (or that arrives when none is in flight) creates no node
\* and changes neither the next unicast address nor the in-flight UUID.
C36_ForeignCallbackIgnored ==
    [][(/\ last_op' \in {"_on_add_node_complete", "_on_add_node_failed"}
        /\ last_args'[1] # prov_uuid)
       => /\ nodes' = nodes
          /\ next_unicast' = next_unicast
          /\ prov_uuid' = prov_uuid]_vars

\* C37: while the controller is not attached (no node path yet, or after a
\* reset), start_scan, provision_device and configure_device send no request
\* and change nothing: not the scan results, not the in-flight UUID, not the
\* node table, not the files.
C37_UnattachedCommandsInert ==
    [][(/\ last_op' \in {"start_scan", "provision_device", "configure_device"}
        /\ node_path = "")
       => /\ sent' = <<>>
          /\ ~raised'
          /\ UNCHANGED <<controller, disk, daemon>>]_vars

\* provision_device(0) on a controller that was reset while a scan result
\* was still to come: the result is listed, nothing was sent
C37_Witness ==
    /\ last = <<"provision_device", <<0>>>>
    /\ node_path = ""
    /\ Len(scan_results) = 1
    /\ sent = <<>>
    /\ prov_uuid = NoBytes

\* the transaction id of a generic message: its last byte
tid_of(data) == data[Len(data)]

\* C33: any two consecutive Generic OnOff or Generic Level messages sent to
\* the same destination carry different transaction ids.
C33_ConsecutiveTidsDiffer ==
    [][(/\ zmesh'.op[1] \in {"set_power", "set_brightness"}
        /\ zmesh'.sent # <<>>
        /\ zmesh.last_to[zmesh'.sent[1]] # <<>>)
       => tid_of(zmesh'.sent[2]) # tid_of(zmesh.last_to[zmesh'.sent[1]])]_vars

\* C34: after a node is removed, no later provisioning assigns a unicast
\* address that a removed node held.
C34_RemovedAddressNotReused ==
    [][(zmesh'.op[1] = "provision" /\ zmesh'.given # None)
       => zmesh'.given \notin zmesh.removed]_vars

====
